---- MODULE Spec2Model ----
(***************************************************************************)
(* A model of libminer: the detection engine (Client::get_miner with its   *)
(* two probes and the connection-budget semaphore), the error merge of the *)
(* two probe failures, and the per-instance cache slots of the backends.   *)
(*                                                                         *)
(* Specifications:                                                         *)
(*   Spec      - concurrent get_miner calls against one Client             *)
(*   LiveSpec  - Spec with max_connections = 1 and the runtime's fairness  *)
(*   MergeSpec - the error merge of get_miner applied to pairs of errors   *)
(*   CacheSpec - concurrent slot reads and invalidation on one handle      *)
(*   OpsSpec   - the public operations of one handle, one at a time        *)
(*   TokSpec   - Whatsminer handles of one Client and its token store      *)
(*   ErrSpec   - get_errors of each backend applied to logs and devices    *)
(*   GuardSpec - the public operations called through a LockMiner          *)
(*   ProbeSpec - http_detect and socket_detect applied to what a device    *)
(*               can answer                                                *)
(*   StatsSpec - the parse of the sections of a stats response             *)
(*   PortSpec  - the port to which each raw-socket command is sent         *)
(***************************************************************************)
EXTENDS Integers, Sequences, FiniteSets, TLC

VARIABLES
    \* ---- Client (src/src/lib.rs) ----
    max_connections,  \* ClientBuilder.max_connections
    permits,          \* permits available in Client.lock (the Semaphore)
    waiters,          \* tasks suspended in acquire_owned(), oldest first
    pc,               \* position of each get_miner call / its returned handle
    loc,              \* per call: the http error `e` while the socket probe runs,
                      \* per handle: the backend that was built
    held,             \* whether the call or its LockMiner owns a permit
    ret,              \* the last value returned to a caller
    \* ---- error merge of get_miner ----
    m_pc, m_e, m_e2, m_out,
    \* ---- one handle and its cache slots (src/src/miners/*) ----
    backend,          \* which backend the handle is
    dev,              \* what the device would answer now
    slot,             \* slot name -> None or Some(cached value)
    lock,             \* slot name -> tasks queued on the slot's Mutex, the owner first
    rd,               \* reader -> position of its slot access
    nreads,           \* reads started on the handle so far
    fetches,          \* slot -> fills started since the slot was last reset
    rets,             \* slot -> results handed to readers since the slot was last reset
    lastOp,           \* the last public operation and its outcome
    \* ---- Whatsminer session tokens (src/src/miners/whatsminer) ----
    now,              \* chrono::Utc::now()
    tokens,           \* Client.tokens is Some(store)
    store,            \* the store: ip -> NoTok or the CacheItem's token
    hand,             \* the Whatsminer handles built so far
    t_last,           \* the last operation on a handle and what it did
    \* ---- get_errors (src/src/miners/*, src/src/miner.rs) ----
    e_b,              \* the backend get_errors is called on
    e_log,            \* the lines get_logs returns
    e_dev,            \* what the device reports about its hashboards
    e_out,            \* the result of get_errors
    \* ---- one probe of get_miner (src/src/lib.rs) ----
    p_kind,           \* "http" or "socket": the probe that runs ("stats": the
                      \* parse of a stats response on its own; "port": one
                      \* raw-socket command of a handle)
    p_obs,            \* what the device answers to the probe's requests
    p_out,            \* the result of the probe (of the parse)
    p_gets            \* GET /index.php requests the socket probe has sent

clientVars == <<max_connections, permits, waiters, pc, loc, held, ret>>
mergeVars  == <<m_pc, m_e, m_e2, m_out>>
cacheVars  == <<backend, dev, slot, lock, rd, nreads, fetches, rets, lastOp>>
tokVars    == <<now, tokens, store, hand, t_last>>
errVars    == <<e_b, e_log, e_dev, e_out>>
probeVars  == <<p_kind, p_obs, p_out, p_gets>>
extVars    == <<tokVars, errVars, probeVars>>
vars == <<clientVars, mergeVars, cacheVars, extVars>>

(***************************************************************************)
(* Bounds of the model.                                                    *)
(***************************************************************************)
NumTasks == 2          \* concurrent get_miner callers
MaxConnections == 2    \* largest max_connections tried (0 = unlimited)
NumStrs == 2           \* payload strings tried for UnknownMinerType / ApiCallFailed
NumReaders == 2        \* concurrent readers of one handle
MaxGen == 1            \* device configuration generations 0..MaxGen
MaxReads == 2          \* slot reads started on one handle

Tasks == 1..NumTasks
Readers == 1..NumReaders

(***************************************************************************)
(* error::Error.  Every value is a record [tag, k, s]: k is the variant,   *)
(* s its payload ("" when it has none).                                    *)
(***************************************************************************)
Err(k, s) == [tag |-> "Err", k |-> k, s |-> s]
Ok(b, s)  == [tag |-> "Ok", k |-> b, s |-> s]
NoRes     == [tag |-> "None", k |-> "", s |-> ""]

Timeout           == Err("Timeout", "")
NoMinerDetected   == Err("NoMinerDetected", "")
NoHostDetected    == Err("NoHostDetected", "")
Unauthorized      == Err("Unauthorized", "")
HttpRequestFailed == Err("HttpRequestFailed", "")
UnknownMinerType(s) == Err("UnknownMinerType", s)
ApiCallFailed(s)    == Err("ApiCallFailed", s)
RequestError(s)     == Err("RequestError", s)
IoError(s)          == Err("IoError", s)
ToStrError          == Err("ToStrError", "")

\* #[error("...")] of each variant: what format!("{}", e) yields
Display(e) ==
    CASE e.k = "RequestError"      -> "Reqwest error " \o e.s
      [] e.k = "IoError"           -> "Io error " \o e.s
      [] e.k = "ToStrError"        -> "ToStr error"
      [] e.k = "NoHostDetected"    -> "No host detected"
      [] e.k = "UnknownMinerType"  -> "Unknown miner type " \o e.s
      [] e.k = "NoMinerDetected"   -> "No miner detected"
      [] e.k = "Timeout"           -> "Timeout"
      [] e.k = "HttpRequestFailed" -> "Failed to execute HTTP request"
      [] e.k = "Unauthorized"      -> "Unauthorized"
      [] e.k = "ApiCallFailed"     -> "API Call failed: " \o e.s
      [] OTHER                     -> e.k

(***************************************************************************)
(* The match of get_miner over (e, e2) = (http error, socket error); the   *)
(* arms are tried in the order written in the source.                      *)
(***************************************************************************)
merge_match(e, e2) ==
    IF e.k = "Timeout" /\ e2.k = "Timeout" THEN Timeout
    ELSE IF e.k = "Timeout" THEN e2
    ELSE IF e2.k = "Timeout" THEN e
    ELSE IF e.k = "NoMinerDetected" /\ e2.k = "NoMinerDetected" THEN NoMinerDetected
    ELSE IF e.k = "UnknownMinerType" /\ e2.k = "UnknownMinerType"
         THEN UnknownMinerType(e.s \o " and " \o e2.s)
    ELSE IF e.k = "UnknownMinerType"
         THEN UnknownMinerType(e.s \o " and " \o Display(e2))
    ELSE IF e2.k = "UnknownMinerType"
         THEN UnknownMinerType(Display(e) \o " and " \o e2.s)
    ELSE IF e.k = "NoMinerDetected"
         THEN UnknownMinerType("No miner detected and " \o Display(e2))
    ELSE e

\* faulty variants of merge: the pair matched in the wrong order; the first error always
merge_swapped(e, e2) == merge_match(e2, e)
merge_first(e, e2) == e

\* match (e, e2) { ... } with e from http_detect and e2 from socket_detect
merge(e, e2) == merge_match(e, e2)

(***************************************************************************)
(* MergeSpec: the merge applied to every pair of errors of a bounded set.  *)
(***************************************************************************)
Strs == {<<"", "a", "b", "x y">>[i] : i \in 1..NumStrs}

ErrorsIn ==
    {Timeout, NoMinerDetected, NoHostDetected, Unauthorized, HttpRequestFailed, ToStrError}
    \cup {UnknownMinerType(s) : s \in Strs}
    \cup {ApiCallFailed(s) : s \in Strs}
    \cup {RequestError(s) : s \in Strs}
    \cup {IoError(s) : s \in Strs}

MergeIdle == m_pc = "off" /\ m_e = NoRes /\ m_e2 = NoRes /\ m_out = NoRes

MergeInit ==
    /\ m_pc = "failed"           \* both probes have failed with (m_e, m_e2)
    /\ m_e \in ErrorsIn
    /\ m_e2 \in ErrorsIn
    /\ m_out = NoRes

MergeStep ==
    /\ m_pc = "failed"
    /\ m_out' = merge(m_e, m_e2)
    /\ m_pc' = "done"
    /\ UNCHANGED <<m_e, m_e2>>
    /\ UNCHANGED <<clientVars, cacheVars, extVars>>

(***************************************************************************)
(* Client::http_detect.  h is what the device answers to the requests the  *)
(* probe sends, in the order the probe sends them:                         *)
(*   root   first GET http://ip/ : "timeout" | "connect" | "error" | "resp"*)
(*   unauth its status is 401                                              *)
(*   auth   its WWW-Authenticate header: "none" | "digest" | "other" |     *)
(*          "nonascii" (to_str() fails)                                    *)
(*   vnish, avalon   the second and third GET http://ip/ : "fail" |        *)
(*          "match" | "nomatch" | "texterr" (reading the body fails)       *)
(*   body   the body of the first response: "minera" | "other" | "texterr" *)
(*   https  GET https://ip : "fail" | "match" | "nomatch" | "texterr"      *)
(*   luci   GET http://ip/cgi-bin/luci : "timeout" (no answer within the   *)
(*          request timeout) | "err" | "403match" | "403nomatch"           *)
(*          | "403texterr" | "other"                                       *)
(***************************************************************************)
GetKinds == {"fail", "match", "nomatch", "texterr"}

HttpObs ==
    [root : {"timeout", "connect", "error"}, unauth : {FALSE}, auth : {"none"},
     vnish : {"fail"}, avalon : {"fail"}, body : {"other"}, https : {"fail"},
     luci : {"err"}]
    \cup
    [root : {"resp"}, unauth : BOOLEAN, auth : {"none", "digest", "other", "nonascii"},
     vnish : GetKinds, avalon : GetKinds, body : {"minera", "other", "texterr"},
     https : GetKinds,
     luci : {"timeout", "err", "403match", "403nomatch", "403texterr", "other"}]

http_detect(h) ==
    IF h.root = "timeout" THEN Timeout
    ELSE IF h.root = "connect" THEN NoMinerDetected
    ELSE IF h.root = "error" THEN RequestError("http")
    ELSE IF h.unauth /\ h.auth = "nonascii" THEN ToStrError
    ELSE IF h.unauth /\ h.auth = "digest" THEN Ok("Antminer", "")
    ELSE IF h.vnish = "texterr" THEN RequestError("http")
    ELSE IF h.vnish = "match" THEN Ok("Vnish", "")
    ELSE IF h.avalon = "texterr" THEN RequestError("http")
    ELSE IF h.avalon = "match" THEN Ok("Avalon", "")
    ELSE IF h.body = "texterr" THEN RequestError("http")
    ELSE IF h.body = "minera" THEN Ok("Minera", "")
    ELSE IF h.https = "texterr" THEN RequestError("http")
    ELSE IF h.https = "match" THEN Ok("Minerva", "")
    ELSE IF h.luci \in {"timeout", "err"} THEN RequestError("http")
    ELSE IF h.luci = "403texterr" THEN RequestError("http")
    ELSE IF h.luci = "403match" THEN Ok("Whatsminer", "with_cache")
    ELSE UnknownMinerType("")

HttpOutcomes == {http_detect(h) : h \in HttpObs}

(***************************************************************************)
(* Client::socket_detect.  o is what the device answers to the "stats"     *)
(* command on the socket:                                                  *)
(*   conn   send_recv: "nohost" | "timeout" | "io" | "ok"                  *)
(*   shape  the response parses as "stats" (StatsResp), else as "status"   *)
(*          (a bare Status), else it is "garbage"                          *)
(*   succ, hasStats, secs   StatsResp: status[0].status == SUCC, stats is  *)
(*          Some, and the kinds of its sections in order                   *)
(*   devType  type_ of a Dev section: "none" | "Minerva" | "other"         *)
(*   index  GET http://ip/index.php: "timeout" (no answer within the       *)
(*          request timeout) | "err" | "404" | "200" | "other"             *)
(*   isErr, code14, desc   a bare Status: status == ERROR, code ==         *)
(*          Some(14), description "none" (absent) or its text              *)
(***************************************************************************)
SectionKinds == {"Pool", "MvStats", "AvaStats", "Dev", "AmVersion", "AmStats"}
MaxSections == 2
SectionLists == UNION {[1..n -> SectionKinds] : n \in 0..MaxSections}

\* descriptions of a bare Status; "none" is an absent description
Descriptions == {"none", "whatsminer", "WhatsMiner", "btminer", "other"}

\* desc.to_lowercase(); a faulty variant that leaves the case alone
to_lowercase_same(desc) == desc
to_lowercase(desc) == IF desc = "WhatsMiner" THEN "whatsminer" ELSE desc

\* desc.contains("whatsminer")
contains_whatsminer(desc) == desc = "whatsminer"

SocketObs ==
    [conn : {"nohost", "timeout", "io"}, shape : {"garbage"}, succ : {FALSE},
     hasStats : {FALSE}, secs : {<<>>}, devType : {"none"}, index : {"err"},
     isErr : {FALSE}, code14 : {FALSE}, desc : {"none"}]
    \cup
    [conn : {"ok"}, shape : {"stats"}, succ : BOOLEAN, hasStats : BOOLEAN,
     secs : SectionLists, devType : {"none", "Minerva", "other"},
     index : {"timeout", "err", "404", "200", "other"},
     isErr : {FALSE}, code14 : {FALSE}, desc : {"none"}]
    \cup
    [conn : {"ok"}, shape : {"status", "garbage"}, succ : {FALSE}, hasStats : {FALSE},
     secs : {<<>>}, devType : {"none"}, index : {"err"},
     isErr : BOOLEAN, code14 : BOOLEAN, desc : Descriptions]

\* the arm of `match stat` for a Dev section; a faulty variant that takes the
\* two statuses of /index.php the other way round
dev_section_swapped(o) ==
    IF o.devType = "none"
    THEN UnknownMinerType("Miner did not include type in response")
    ELSE IF o.devType # "Minerva"
    THEN UnknownMinerType("Unsupported miner type: " \o o.devType)
    ELSE IF o.index \in {"timeout", "err"} THEN RequestError("http")
    ELSE IF o.index = "404" THEN Ok("Minera", "")
    ELSE IF o.index = "200" THEN Ok("Minerva", "")
    ELSE UnknownMinerType("Unable to determine interface for Minerva")

dev_section(o) ==
    IF o.devType = "none"
    THEN UnknownMinerType("Miner did not include type in response")
    ELSE IF o.devType # "Minerva"
    THEN UnknownMinerType("Unsupported miner type: " \o o.devType)
    ELSE IF o.index \in {"timeout", "err"} THEN RequestError("http")
    ELSE IF o.index = "404" THEN Ok("Minerva", "")
    ELSE IF o.index = "200" THEN Ok("Minera", "")
    ELSE UnknownMinerType("Unable to determine interface for Minerva")

\* `for stat in stats { match stat { ... } }` and the fall-through after the loop
RECURSIVE scan_stats(_, _)
scan_stats(secs, o) ==
    IF secs = <<>>
    THEN UnknownMinerType("Stats did not include a section containing type")
    ELSE IF Head(secs) = "AmVersion" THEN Ok("Antminer", "")
    ELSE IF Head(secs) = "AvaStats" THEN Ok("Avalon", "")
    ELSE IF Head(secs) = "Dev" THEN dev_section(o)
    ELSE scan_stats(Tail(secs), o)

socket_detect(o) ==
    IF o.conn = "nohost" THEN NoMinerDetected
    ELSE IF o.conn = "timeout" THEN Timeout
    ELSE IF o.conn = "io" THEN IoError("io")
    ELSE IF o.shape = "stats"
    THEN IF ~o.succ THEN ApiCallFailed("msg")
         ELSE IF o.hasStats THEN scan_stats(o.secs, o)
         ELSE UnknownMinerType("Unable to parse stats response")
    ELSE IF o.shape = "status"
    THEN IF o.isErr /\ o.code14 /\ o.desc # "none"
                    /\ contains_whatsminer(to_lowercase(o.desc))
         THEN Ok("Whatsminer", "")
         ELSE UnknownMinerType("Received error response but not whatsminer")
    ELSE UnknownMinerType("Unable to parse response from socket API")

SocketOutcomes == {socket_detect(o) : o \in SocketObs}

(***************************************************************************)
(* Client::get_miner, one call per task.  pc[t]:                           *)
(*   "idle"     no call in progress                                        *)
(*   "acquire"  suspended in lock.acquire_owned().await                    *)
(*   "http"     the permit (if any) is owned, http_detect is running       *)
(*   "socket"   http_detect failed with loc[t], socket_detect is running   *)
(*   "handle"   get_miner returned Ok: the caller owns the handle loc[t]   *)
(***************************************************************************)
NoRet == [what |-> "none", result |-> NoRes, locked |-> FALSE]

ClientIdle ==
    /\ max_connections = 0
    /\ permits = 0
    /\ waiters = <<>>
    /\ pc = [t \in Tasks |-> "idle"]
    /\ loc = [t \in Tasks |-> NoRes]
    /\ held = [t \in Tasks |-> FALSE]
    /\ ret = NoRet

\* ClientBuilder::build: lock = Some(Semaphore::new(max_connections)) iff it is > 0
ClientInit ==
    /\ max_connections \in 0..MaxConnections
    /\ permits = max_connections
    /\ waiters = <<>>
    /\ pc = [t \in Tasks |-> "idle"]
    /\ loc = [t \in Tasks |-> NoRes]
    /\ held = [t \in Tasks |-> FALSE]
    /\ ret = NoRet

Budgeted == max_connections > 0

\* faulty variants of CanAcquire: the permit count is not looked at; waiters are overtaken
CanAcquire_unlimited == TRUE
CanAcquire_barging == permits > 0

\* Semaphore: a permit is handed out at once only if one is free and nobody
\* queues for it (permits are given in the order they were requested)
CanAcquire == permits > 0 /\ waiters = <<>>

\* faulty variant of Release: the permit is forgotten, not given back
Release_leaked(t) ==
    /\ permits' = permits
    /\ held' = [held EXCEPT ![t] = FALSE]

\* dropping an OwnedSemaphorePermit gives it back
Release(t) ==
    /\ permits' = IF held[t] THEN permits + 1 ELSE permits
    /\ held' = [held EXCEPT ![t] = FALSE]

RECURSIVE Without(_, _)
Without(q, t) ==
    IF q = <<>> THEN <<>>
    ELSE IF Head(q) = t THEN Without(Tail(q), t)
    ELSE <<Head(q)>> \o Without(Tail(q), t)

\* let permit = if let Some(lock) = &self.lock { Some(acquire_owned().await?) } else { None }
Call(t) ==
    /\ pc[t] = "idle"
    /\ IF ~Budgeted
       THEN /\ pc' = [pc EXCEPT ![t] = "http"]
            /\ UNCHANGED <<permits, waiters, held>>
       ELSE IF CanAcquire
       THEN /\ pc' = [pc EXCEPT ![t] = "http"]
            /\ permits' = permits - 1
            /\ held' = [held EXCEPT ![t] = TRUE]
            /\ UNCHANGED waiters
       ELSE /\ pc' = [pc EXCEPT ![t] = "acquire"]
            /\ waiters' = Append(waiters, t)
            /\ UNCHANGED <<permits, held>>
    /\ UNCHANGED <<max_connections, loc, ret>>
    /\ UNCHANGED <<mergeVars, cacheVars, extVars>>

\* the oldest waiter is woken with a permit that was given back
Grant(t) ==
    /\ pc[t] = "acquire"
    /\ waiters # <<>> /\ Head(waiters) = t
    /\ permits > 0
    /\ permits' = permits - 1
    /\ held' = [held EXCEPT ![t] = TRUE]
    /\ waiters' = Tail(waiters)
    /\ pc' = [pc EXCEPT ![t] = "http"]
    /\ UNCHANGED <<max_connections, loc, ret>>
    /\ UNCHANGED <<mergeVars, cacheVars, extVars>>

\* faulty variant of AfterHttp: the socket probe runs whatever the http probe found
AfterHttp_always_socket(r) == "socket"

\* match self.http_detect(ip, port).await { Ok(miner) => Ok(miner), Err(e) => socket_detect ... }
AfterHttp(r) == IF r.tag = "Ok" THEN "handle" ELSE "socket"

\* Ok(Box::new(LockMiner::new_locked(miner, permit))) or Ok(miner)
Returned(t, what, r) ==
    [what |-> what, result |-> r, locked |-> (r.tag = "Ok" /\ held[t])]

HttpProbe(t) ==
    /\ pc[t] = "http"
    /\ \E r \in HttpOutcomes :
         /\ pc' = [pc EXCEPT ![t] = AfterHttp(r)]
         /\ loc' = [loc EXCEPT ![t] = r]
         /\ ret' = IF AfterHttp(r) = "handle"
                   THEN Returned(t, "get_miner", r)
                   ELSE ret
    /\ UNCHANGED <<max_connections, permits, waiters, held>>
    /\ UNCHANGED <<mergeVars, cacheVars, extVars>>

SocketProbe(t) ==
    /\ pc[t] = "socket"
    /\ \E r2 \in SocketOutcomes :
         IF r2.tag = "Ok"
         THEN /\ pc' = [pc EXCEPT ![t] = "handle"]
              /\ loc' = [loc EXCEPT ![t] = r2]
              /\ ret' = Returned(t, "get_miner", r2)
              /\ UNCHANGED <<permits, held>>
         ELSE \* `}?;` returns the merged error; the permit is dropped with the frame
              /\ pc' = [pc EXCEPT ![t] = "idle"]
              /\ loc' = [loc EXCEPT ![t] = NoRes]
              /\ ret' = Returned(t, "get_miner", merge(loc[t], r2))
              /\ Release(t)
    /\ UNCHANGED <<max_connections, waiters>>
    /\ UNCHANGED <<mergeVars, cacheVars, extVars>>

\* a Miner method called on the handle: LockMiner delegates to self.miner and
\* does not touch _permit
HandleCall(t) ==
    /\ pc[t] = "handle"
    /\ ret' = Returned(t, "get_type", Ok(loc[t].k, ""))
    /\ UNCHANGED <<max_connections, permits, waiters, pc, loc, held>>
    /\ UNCHANGED <<mergeVars, cacheVars, extVars>>

\* the caller drops the handle (LockMiner and its _permit, or the bare backend)
Discard(t) ==
    /\ pc[t] = "handle"
    /\ pc' = [pc EXCEPT ![t] = "idle"]
    /\ loc' = [loc EXCEPT ![t] = NoRes]
    /\ Release(t)
    /\ UNCHANGED <<max_connections, waiters, ret>>
    /\ UNCHANGED <<mergeVars, cacheVars, extVars>>

\* the caller drops the future of get_miner before it completes
Cancel(t) ==
    /\ pc[t] \in {"acquire", "http", "socket"}
    /\ pc' = [pc EXCEPT ![t] = "idle"]
    /\ loc' = [loc EXCEPT ![t] = NoRes]
    /\ waiters' = Without(waiters, t)
    /\ Release(t)
    /\ UNCHANGED <<max_connections, ret>>
    /\ UNCHANGED <<mergeVars, cacheVars, extVars>>

(***************************************************************************)
(* The specifications of the client and of the merge.                      *)
(***************************************************************************)
NoOp == [op |-> "none", arg |-> "", res |-> NoRes]

CacheIdle ==
    /\ backend = "none"
    /\ slot = <<>>
    /\ lock = <<>>
    /\ rd = <<>>
    /\ dev = [sleep |-> FALSE, blink |-> FALSE, conf |-> 0]
    /\ nreads = 0
    /\ fetches = <<>>
    /\ rets = <<>>
    /\ lastOp = NoOp

\* no Whatsminer handle has been built
TokIdle ==
    /\ now = 0
    /\ tokens = FALSE
    /\ store = <<>>
    /\ hand = <<>>
    /\ t_last = <<>>

\* get_errors is not called
ErrIdle ==
    /\ e_b = "none"
    /\ e_log = <<>>
    /\ e_dev = <<>>
    /\ e_out = NoRes

\* no probe is run on its own
ProbeIdle ==
    /\ p_kind = "none"
    /\ p_obs = <<>>
    /\ p_out = NoRes
    /\ p_gets = 0

ExtIdle == TokIdle /\ ErrIdle /\ ProbeIdle

Init == ClientInit /\ MergeIdle /\ CacheIdle /\ ExtIdle

Next ==
    \E t \in Tasks :
        \/ Call(t)
        \/ Grant(t)
        \/ HttpProbe(t)
        \/ SocketProbe(t)
        \/ HandleCall(t)
        \/ Discard(t)
        \/ Cancel(t)

Spec == Init /\ [][Next]_vars

\* The runtime wakes a waiter whose permit is available (tokio's Semaphore hands
\* permits to waiters in the order they queued); nothing forces a caller to drop
\* a handle.
LiveInit == Init /\ max_connections = 1

LiveSpec == LiveInit /\ [][Next]_vars /\ \A t \in Tasks : WF_vars(Grant(t))

MergeSpecInit == ClientIdle /\ MergeInit /\ CacheIdle /\ ExtIdle

MergeSpec == MergeSpecInit /\ [][MergeStep]_vars

(***************************************************************************)
(* Claims about the detection engine.                                      *)
(***************************************************************************)
\* calls past the acquire and live handles: the owners of a permit when budgeted
PermitHolders == {t \in Tasks : held[t] \/ pc[t] \in {"http", "socket", "handle"}}

\* C1: with max_connections = N > 0, at most N get_miner calls or live handles
\* hold a permit at the same time, in every reachable state.
C1_AtMostNPermits ==
    Budgeted => Cardinality(PermitHolders) <= max_connections

\* the budget is used up and a further call waits for a permit
C1_Witness ==
    /\ Budgeted
    /\ Cardinality(PermitHolders) = max_connections
    /\ \E t \in Tasks : pc[t] = "acquire"

\* with max_connections = 1: while a handle is alive it keeps the permit (also
\* across calls on the handle) and no other call probes or owns a handle
C2_Suspended ==
    max_connections = 1 =>
        \A t \in Tasks :
            pc[t] = "handle" =>
                /\ held[t] /\ permits = 0
                /\ \A u \in Tasks \ {t} : pc[u] \in {"idle", "acquire"}

\* C2: with max_connections = 1 a second concurrent get_miner call sends no probe
\* and stays suspended while the first handle is alive, and it leaves the acquire
\* once the handle has been discarded and the permit is free again.
C2_SuspendsThenProceeds ==
    /\ []C2_Suspended
    /\ \A t \in Tasks :
         (pc[t] = "acquire" /\ waiters # <<>> /\ Head(waiters) = t /\ permits > 0)
             ~> (pc[t] # "acquire")

\* a call is suspended behind a live handle on which a method has been called
C2_Witness ==
    /\ max_connections = 1
    /\ ret.what = "get_type"
    /\ \E t, u \in Tasks : pc[t] = "handle" /\ pc[u] = "acquire"

\* C3: get_miner runs the HTTP probe first; the socket probe starts only after
\* the HTTP probe has failed, never after it succeeded, and then the backend the
\* HTTP probe selected is what get_miner returns.
C3_HttpThenSocket ==
    [][\A t \in Tasks :
         /\ pc[t] \in {"idle", "acquire"} => pc'[t] \in {"idle", "acquire", "http"}
         /\ (pc'[t] = "socket" /\ pc[t] # "socket") =>
                (pc[t] = "http" /\ loc'[t].tag = "Err")
         /\ (pc[t] = "http" /\ loc'[t].tag = "Ok") =>
                (pc'[t] = "handle" /\ ret'.what = "get_miner" /\ ret'.result = loc'[t])
      ]_vars

\* the socket probe runs after an HTTP failure while another call got its
\* backend from the HTTP probe (a Vnish is only ever selected by the HTTP probe)
C3_Witness ==
    \E t, u \in Tasks :
        /\ pc[t] = "socket" /\ loc[t].tag = "Err"
        /\ pc[u] = "handle" /\ loc[u] = Ok("Vnish", "")

(***************************************************************************)
(* Claims about the merge of the two probe failures (MergeSpec).           *)
(***************************************************************************)
Merged == m_pc = "done"

\* The statement of C4 as the table of the specification has it.
C4_TableRow ==
    (Merged /\ m_e = NoMinerDetected) =>
        m_out = IF m_e2 = Timeout THEN m_e
                ELSE IF m_e2 = NoMinerDetected
                     THEN UnknownMinerType("No miner detected and " \o Display(m_e2))
                ELSE IF m_e2.k = "UnknownMinerType" THEN UnknownMinerType(m_e2.s)
                ELSE m_e2

\* C4 (amended): when the HTTP error is NoMinerDetected, get_miner returns
\* NoMinerDetected if the socket error is Timeout or NoMinerDetected,
\* UnknownMinerType("No miner detected and " + s2) if it is UnknownMinerType(s2),
\* and UnknownMinerType("No miner detected and " + text of the socket error) for
\* any other socket error.
C4_NoMinerRow ==
    (Merged /\ m_e = NoMinerDetected) =>
        m_out = IF m_e2 = Timeout \/ m_e2 = NoMinerDetected THEN NoMinerDetected
                ELSE IF m_e2.k = "UnknownMinerType"
                     THEN UnknownMinerType("No miner detected and " \o m_e2.s)
                ELSE UnknownMinerType("No miner detected and " \o Display(m_e2))

\* the HTTP connection was refused and the socket answered with a failed status
C4_Witness ==
    /\ Merged /\ m_e = NoMinerDetected /\ m_e2 = ApiCallFailed("a")
    /\ m_out = UnknownMinerType("No miner detected and API Call failed: a")

\* The statement of C5 as the table of the specification has it.
C5_TableRow ==
    (Merged /\ m_e.k = "UnknownMinerType") =>
        m_out = IF m_e2 = Timeout \/ m_e2 = NoMinerDetected THEN m_e
                ELSE IF m_e2.k = "UnknownMinerType"
                     THEN UnknownMinerType(m_e.s \o " and " \o m_e2.s)
                ELSE UnknownMinerType(m_e.s \o " and " \o Display(m_e))

\* C5 (amended): when the HTTP error is UnknownMinerType(s1), get_miner returns
\* UnknownMinerType(s1) if the socket error is Timeout, UnknownMinerType(s1 +
\* " and " + s2) if it is UnknownMinerType(s2), and UnknownMinerType(s1 + " and "
\* + text of the socket error) for any other socket error, NoMinerDetected
\* included.
C5_UnknownRow ==
    (Merged /\ m_e.k = "UnknownMinerType") =>
        m_out = IF m_e2 = Timeout THEN m_e
                ELSE IF m_e2.k = "UnknownMinerType"
                     THEN UnknownMinerType(m_e.s \o " and " \o m_e2.s)
                ELSE UnknownMinerType(m_e.s \o " and " \o Display(m_e2))

\* the HTTP probe recognised nothing and the socket connection was refused
C5_Witness ==
    /\ Merged /\ m_e = UnknownMinerType("") /\ m_e2 = NoMinerDetected
    /\ m_out = UnknownMinerType(" and No miner detected")

\* C6: when the HTTP error is Timeout, get_miner returns Timeout if the socket
\* error is Timeout too, and the socket error itself otherwise.
C6_TimeoutRow ==
    (Merged /\ m_e = Timeout) =>
        m_out = IF m_e2 = Timeout THEN Timeout ELSE m_e2

\* the HTTP probe timed out and the socket answered with a failed status
C6_Witness ==
    Merged /\ m_e = Timeout /\ m_e2 = ApiCallFailed("a") /\ m_out = ApiCallFailed("a")

\* C7: when the HTTP error is none of Timeout, NoMinerDetected, UnknownMinerType,
\* get_miner returns the HTTP error itself, unless the socket error is
\* UnknownMinerType(s2): then it returns UnknownMinerType(text of the HTTP error
\* + " and " + s2).
C7_OtherRow ==
    (Merged /\ m_e.k \notin {"Timeout", "NoMinerDetected", "UnknownMinerType"}) =>
        m_out = IF m_e2.k = "UnknownMinerType"
                THEN UnknownMinerType(Display(m_e) \o " and " \o m_e2.s)
                ELSE m_e

\* the HTTP probe failed on a header and the socket probe recognised nothing
C7_Witness ==
    /\ Merged /\ m_e = ToStrError /\ m_e2 = UnknownMinerType("a")
    /\ m_out = UnknownMinerType("ToStr error and a")

(***************************************************************************)
(* One handle: the backends and their cache slots.  A slot is a            *)
(* tokio::sync::Mutex<Option<T>>; its accessor locks it, fills it when it  *)
(* is None and hands the guard back.                                       *)
(***************************************************************************)
Backends == {"Antminer", "Avalon", "Vnish", "Whatsminer", "Minera", "Minerva"}

Slots(b) ==
    CASE b = "Antminer"   -> {"sys_info", "summary", "miner_conf", "stats"}
      [] b = "Avalon"     -> {"model", "version", "estats"}
      [] b = "Vnish"      -> {"status", "settings", "info", "summary", "presets"}
      [] b = "Whatsminer" -> {"model", "summary"}
      [] b = "Minera"     -> {"stats", "cg_stats"}
      [] OTHER            -> {}

\* the slots that the backend's invalidate() takes
Invalidated(b) ==
    CASE b = "Antminer"   -> {"summary", "miner_conf", "stats"}
      [] b = "Avalon"     -> {"estats"}
      [] b = "Vnish"      -> {"status", "settings", "info", "summary"}
      [] b = "Whatsminer" -> {"summary"}
      [] b = "Minera"     -> {"stats"}
      [] OTHER            -> {}

\* the slot whose accessor is called while the guard of s is held
Inner(b, s) ==
    CASE b = "Avalon" /\ s = "model"  -> "version"
      [] b = "Vnish" /\ s = "presets" -> "settings"
      [] OTHER                        -> "none"

\* the slot whose accessor an operation calls while it holds the guard that
\* the accessor of s returned (Vnish get_efficiency: summary, then get_model);
\* a faulty variant in which another operation takes the two the other way round
Then_both(b, s) ==
    CASE b = "Vnish" /\ s = "summary" -> "info"
      [] b = "Vnish" /\ s = "info"    -> "summary"
      [] OTHER                        -> "none"
Then(b, s) ==
    IF b = "Vnish" /\ s = "summary" THEN "info" ELSE "none"

\* whether filling s sends a request of its own
OwnRequest(b, s) == ~(b = "Avalon" /\ s = "model")

\* the device: asleep or mining, locator LED, generation of its configuration
Devs == [sleep : BOOLEAN, blink : BOOLEAN, conf : 0..MaxGen]

None == [tag |-> "None", sleep |-> FALSE, blink |-> FALSE, conf |-> 0]
Some(v) == [tag |-> "Some", sleep |-> v.sleep, blink |-> v.blink, conf |-> v.conf]

\* Option::is_none; a faulty variant that never sees a cached value
is_none_always(x) == TRUE
is_none(x) == x.tag = "None"

\* which part of the device's state the response kept in a slot carries
View(b, s, d) ==
    [sleep |-> /\ <<b, s>> \in {<<"Antminer", "summary">>, <<"Antminer", "miner_conf">>,
                                <<"Antminer", "stats">>, <<"Avalon", "estats">>,
                                <<"Vnish", "summary">>, <<"Whatsminer", "summary">>,
                                <<"Minera", "stats">>, <<"Minera", "cg_stats">>}
               /\ d.sleep,
     blink |-> <<b, s>> = <<"Vnish", "status">> /\ d.blink,
     conf  |-> IF <<b, s>> \in {<<"Antminer", "miner_conf">>, <<"Avalon", "estats">>,
                                <<"Vnish", "settings">>, <<"Vnish", "presets">>}
               THEN d.conf ELSE 0]

ParseError      == Err("ParseError", "")
InvalidResponse == Err("InvalidResponse", "")
ExpectedReturn  == Err("ExpectedReturn", "")
NotSupported    == Err("NotSupported", "")

\* the call unwinds: an index out of range, an unwrap of None
Panic == [tag |-> "Panic", k |-> "", s |-> ""]

\* Client::send_recv: connect refused or timed out, request timed out
SendRecvErrs == {NoHostDetected, Timeout}

\* the errors with which the fill of s can leave its accessor
FetchErrs(b, s) ==
    CASE b = "Antminer"   -> {RequestError("http"), Unauthorized, HttpRequestFailed}
      [] b = "Avalon"     -> SendRecvErrs \cup {ParseError}
      [] b = "Vnish" /\ s = "presets" -> {RequestError("http"), ApiCallFailed("presets")}
      [] b = "Vnish"      -> {RequestError("http")}
      [] b = "Whatsminer" /\ s = "model" -> {RequestError("http"), ExpectedReturn}
      [] b = "Whatsminer" -> SendRecvErrs \cup {ApiCallFailed("a"), ParseError}
      [] b = "Minera" /\ s = "stats" -> {RequestError("http"), HttpRequestFailed}
      [] b = "Minera"     -> \* cg_stat.remove(0) unwinds on an empty STATS array
                             SendRecvErrs \cup {ParseError, InvalidResponse, Panic}
      [] OTHER            -> {}

\* the errors of the fill of s once its inner accessor has returned a value
OuterErrs(b, s) ==
    IF b = "Avalon" /\ s = "model" THEN {ApiCallFailed("version")} ELSE {}

\* what a reader was handed
Got(v)    == [ok |-> TRUE, v |-> v, e |-> NoRes]
Failed(e) == [ok |-> FALSE, v |-> None, e |-> e]

Idle == [pc |-> "idle", s |-> "", o |-> ""]

(***************************************************************************)
(* Readers of one handle (&self methods run concurrently), step by step.   *)
(***************************************************************************)
CacheInit ==
    /\ backend \in {b \in Backends : Slots(b) # {}}
    /\ dev \in Devs
    /\ slot = [s \in Slots(backend) |-> None]
    /\ lock = [s \in Slots(backend) |-> <<>>]
    /\ rd = [r \in Readers |-> Idle]
    /\ nreads = 0
    /\ fetches = [s \in Slots(backend) |-> 0]
    /\ rets = [s \in Slots(backend) |-> <<>>]
    /\ lastOp = NoOp

\* the Mutex of s is r's; a faulty variant in which it is anybody's, and one
\* in which the handle has a single Mutex for all its slots
Owner_unlocked(r, s) == TRUE
Owner_global(r, s) ==
    /\ lock[s] # <<>> /\ Head(lock[s]) = r
    /\ \A s2 \in DOMAIN lock : IF lock[s2] = <<>> THEN TRUE ELSE Head(lock[s2]) = r
Owner(r, s) == lock[s] # <<>> /\ Head(lock[s]) = r

\* a reader calls the accessor of s: self.s.lock().await
ReadSlot(r, s) ==
    /\ rd[r].pc = "idle"
    /\ s \in Slots(backend)
    /\ nreads < MaxReads
    /\ nreads' = nreads + 1
    /\ lock' = [lock EXCEPT ![s] = Append(@, r)]
    /\ rd' = [rd EXCEPT ![r] = [pc |-> "wait", s |-> s, o |-> ""]]
    /\ UNCHANGED <<backend, dev, slot, fetches, rets, lastOp>>
    /\ UNCHANGED <<clientVars, mergeVars, extVars>>

\* the accessor of rd[r].s returns Ok(guard), the slots being sl; when it was
\* called from the fill of an outer slot o, that fill goes on to its end
Handed(r, sl) ==
    LET s == rd[r].s
        o == rd[r].o
        filled == Some(View(backend, o, sl[s]))
    IN  IF o = ""
        THEN /\ slot' = sl
             /\ rd' = [rd EXCEPT ![r].pc = "hold"]
             /\ rets' = [rets EXCEPT ![s] = Append(@, Got(sl[s]))]
             /\ lock' = lock
        ELSE IF Inner(backend, o) # s
        THEN \* the operation that held o returns; both guards are dropped
             /\ slot' = sl
             /\ rd' = [rd EXCEPT ![r] = Idle]
             /\ rets' = [rets EXCEPT ![s] = Append(@, Got(sl[s]))]
             /\ lock' = [lock EXCEPT ![s] = Without(@, r), ![o] = Without(@, r)]
        ELSE \/ /\ slot' = [sl EXCEPT ![o] = filled]
                /\ rd' = [rd EXCEPT ![r] = [pc |-> "hold", s |-> o, o |-> ""]]
                /\ rets' = [rets EXCEPT ![s] = Append(@, Got(sl[s])),
                                        ![o] = Append(@, Got(filled))]
                /\ lock' = [lock EXCEPT ![s] = Without(@, r)]
             \/ \E e \in OuterErrs(backend, o) :
                /\ slot' = sl
                /\ rd' = [rd EXCEPT ![r] = Idle]
                /\ rets' = [rets EXCEPT ![s] = Append(@, Got(sl[s])),
                                        ![o] = Append(@, Failed(e))]
                /\ lock' = [lock EXCEPT ![s] = Without(@, r), ![o] = Without(@, r)]

\* the accessor of the inner slot is called with the guard of s held
CallInner(r, s) ==
    /\ lock' = [lock EXCEPT ![Inner(backend, s)] = Append(@, r)]
    /\ rd' = [rd EXCEPT ![r] = [pc |-> "wait", s |-> Inner(backend, s), o |-> s]]
    /\ UNCHANGED <<slot, rets>>

\* the lock is granted; `if s.is_none()` decides between a fill and the stored value
Locked(r) ==
    LET s == rd[r].s IN
    /\ rd[r].pc = "wait"
    /\ Owner(r, s)
    /\ IF is_none(slot[s])
       THEN /\ fetches' = [fetches EXCEPT ![s] = @ + 1]
            /\ IF OwnRequest(backend, s)
               THEN /\ rd' = [rd EXCEPT ![r].pc = "fetch"]
                    /\ UNCHANGED <<slot, lock, rets>>
               ELSE CallInner(r, s)
       ELSE /\ Handed(r, slot)
            /\ UNCHANGED fetches
    /\ UNCHANGED <<backend, dev, nreads, lastOp>>
    /\ UNCHANGED <<clientVars, mergeVars, extVars>>

\* the request of the fill is answered and parsed: *s = Some(..)
FetchOk(r) ==
    LET s == rd[r].s IN
    /\ rd[r].pc = "fetch"
    /\ IF Inner(backend, s) # "none"
       THEN CallInner(r, s)
       ELSE Handed(r, [slot EXCEPT ![s] = Some(View(backend, s, dev))])
    /\ UNCHANGED <<backend, dev, nreads, fetches, lastOp>>
    /\ UNCHANGED <<clientVars, mergeVars, extVars>>

\* faulty variant of FetchErr: the guards outlive the failed accessor
FetchErr_guard_kept(r, e) ==
    /\ rd[r].pc = "fetch"
    /\ e \in FetchErrs(backend, rd[r].s)
    /\ rd' = [rd EXCEPT ![r] = Idle]
    /\ rets' = [rets EXCEPT ![rd[r].s] = Append(@, Failed(e))]
    /\ UNCHANGED <<backend, dev, slot, lock, nreads, fetches, lastOp>>
    /\ UNCHANGED <<clientVars, mergeVars, extVars>>

\* the request of the fill fails: `?` leaves the accessor, the guards are dropped
FetchErr(r, e) ==
    LET s == rd[r].s
        o == rd[r].o
    IN
    /\ rd[r].pc = "fetch"
    /\ e \in FetchErrs(backend, s)
    /\ rd' = [rd EXCEPT ![r] = Idle]
    /\ IF o = ""
       THEN /\ lock' = [lock EXCEPT ![s] = Without(@, r)]
            /\ rets' = [rets EXCEPT ![s] = Append(@, Failed(e))]
       ELSE /\ lock' = [lock EXCEPT ![s] = Without(@, r), ![o] = Without(@, r)]
            /\ rets' = IF Inner(backend, o) = s
                       THEN [rets EXCEPT ![s] = Append(@, Failed(e)),
                                         ![o] = Append(@, Failed(e))]
                       ELSE [rets EXCEPT ![s] = Append(@, Failed(e))]
    /\ UNCHANGED <<backend, dev, slot, nreads, fetches, lastOp>>
    /\ UNCHANGED <<clientVars, mergeVars, extVars>>

\* the caller goes on to a second accessor with the guard still alive
HoldRead(r) ==
    LET s == rd[r].s IN
    /\ rd[r].pc = "hold"
    /\ Then(backend, s) # "none"
    /\ lock' = [lock EXCEPT ![Then(backend, s)] = Append(@, r)]
    /\ rd' = [rd EXCEPT ![r] = [pc |-> "wait", s |-> Then(backend, s), o |-> s]]
    /\ UNCHANGED <<backend, dev, slot, nreads, fetches, rets, lastOp>>
    /\ UNCHANGED <<clientVars, mergeVars, extVars>>

\* the caller is done with the guard
Drop(r) ==
    /\ rd[r].pc = "hold"
    /\ lock' = [lock EXCEPT ![rd[r].s] = Without(@, r)]
    /\ rd' = [rd EXCEPT ![r] = Idle]
    /\ UNCHANGED <<backend, dev, slot, nreads, fetches, rets, lastOp>>
    /\ UNCHANGED <<clientVars, mergeVars, extVars>>

\* invalidate() on the slot map sl
invalidate(b, sl) == [s \in DOMAIN sl |-> IF s \in Invalidated(b) THEN None ELSE sl[s]]

\* invalidate(), called by the &mut self methods: no reader is in the handle
Invalidate ==
    /\ \A r \in Readers : rd[r].pc = "idle"
    /\ slot' = invalidate(backend, slot)
    /\ fetches' = [s \in DOMAIN fetches |-> IF s \in Invalidated(backend) THEN 0 ELSE fetches[s]]
    /\ rets' = [s \in DOMAIN rets |-> IF s \in Invalidated(backend) THEN <<>> ELSE rets[s]]
    /\ UNCHANGED <<backend, dev, lock, rd, nreads, lastOp>>
    /\ UNCHANGED <<clientVars, mergeVars, extVars>>

\* time passes and the device changes under the handle
DeviceChange ==
    /\ dev' \in {[dev EXCEPT !.sleep = ~@], [dev EXCEPT !.blink = ~@],
                 [dev EXCEPT !.conf = (@ + 1) % (MaxGen + 1)]}
    /\ UNCHANGED <<backend, slot, lock, rd, nreads, fetches, rets, lastOp>>
    /\ UNCHANGED <<clientVars, mergeVars, extVars>>

CacheNext ==
    \/ \E r \in Readers, s \in Slots(backend) : ReadSlot(r, s)
    \/ \E r \in Readers : Locked(r)
    \/ \E r \in Readers : FetchOk(r)
    \/ \E r \in Readers : \E e \in FetchErrs(backend, rd[r].s) : FetchErr(r, e)
    \/ \E r \in Readers : HoldRead(r)
    \/ \E r \in Readers : Drop(r)
    \/ Invalidate
    \/ DeviceChange

CacheSpecInit == ClientIdle /\ MergeIdle /\ CacheInit /\ ExtIdle

CacheSpec == CacheSpecInit /\ [][CacheNext]_vars

(***************************************************************************)
(* Claims about the cache slots.                                           *)
(***************************************************************************)
Populated(s) == slot[s].tag = "Some"

\* readers inside the fill of s: their own request, or the inner accessor's
Filling(s) ==
    {r \in Readers : \/ rd[r].pc = "fetch" /\ rd[r].s = s
                     \/ rd[r].o = s /\ Inner(backend, s) = rd[r].s}

NFailed(s) == Cardinality({i \in 1..Len(rets[s]) : ~rets[s][i].ok})

C9_PopulatedIsAuthoritative ==
    [][\A s \in Slots(backend) :
          Populated(s) =>
              \/ /\ slot'[s] = slot[s]
                 /\ fetches'[s] = fetches[s]
                 /\ \/ rets'[s] = rets[s]
                    \/ rets'[s] = Append(rets[s], Got(slot[s]))
              \/ /\ s \in Invalidated(backend)
                 /\ \A r \in Readers : rd[r].pc = "idle"
                 /\ slot' = invalidate(backend, slot)
                 /\ slot'[s] = None]_vars

\* a second read was handed the stored value although the device has changed
\* since the one fetch
C9_Witness ==
    \E s \in Slots(backend) :
        /\ Populated(s)
        /\ slot[s] # Some(View(backend, s, dev))
        /\ fetches[s] = 1
        /\ rets[s] = <<Got(slot[s]), Got(slot[s])>>

(***************************************************************************)
(* The public operations, one call at a time.  An operation is the set of  *)
(* its outcomes, one for each way the device can answer: the slots and the *)
(* device afterwards, the result, and the slot whose lock the call holds   *)
(* and waits for again ("" when it returns).                               *)
(***************************************************************************)
Out(sl, d, res) == [slot |-> sl, dev |-> d, res |-> res, blocked |-> ""]
Blocked(sl, d, s) ==
    [slot |-> sl, dev |-> d, res |-> [tag |-> "Pending", k |-> "", s |-> ""], blocked |-> s]

Done == Ok("", "")
OkBool(v) == Ok(IF v THEN "true" ELSE "false", "")

\* arguments: fewer than three pools or at least three; the Profile variants
PoolArgs == {"short", "full"}
Profiles == {"Default", "LowPower", "Preset", "Manual"}

Reconfigured(d) == [d EXCEPT !.conf = (@ + 1) % (MaxGen + 1)]

\* an accessor without an inner one, run to its end
AccessPlain(b, sl, d, s) ==
    IF ~is_none(sl[s])
    THEN {[slot |-> sl, err |-> NoRes]}
    ELSE {[slot |-> [sl EXCEPT ![s] = Some(View(b, s, d))], err |-> NoRes]}
         \cup {[slot |-> sl, err |-> e] : e \in FetchErrs(b, s)}

\* the accessor of s, run to its end
Access(b, sl, d, s) ==
    IF Inner(b, s) = "none" \/ ~is_none(sl[s])
    THEN AccessPlain(b, sl, d, s)
    ELSE (IF OwnRequest(b, s)
          THEN {[slot |-> sl, err |-> e] : e \in FetchErrs(b, s)} ELSE {})
         \cup UNION {
            IF a.err # NoRes
            THEN {a}
            ELSE {[slot |-> [a.slot EXCEPT ![s] = Some(View(b, s, a.slot[Inner(b, s)]))],
                   err |-> NoRes]}
                 \cup {[slot |-> a.slot, err |-> e] : e \in OuterErrs(b, s)}
            : a \in AccessPlain(b, sl, d, Inner(b, s))}

\* what a getter answers from the cached value v
Answer(what, v) ==
    CASE what = "sleep" -> OkBool(v.sleep)
      [] what = "blink" -> OkBool(v.blink)
      [] OTHER          -> Ok(what, "")

\* a getter that reads slot s and answers from the cached value
Getter(b, sl, d, s, what) ==
    {Out(a.slot, d, IF a.err = NoRes THEN Answer(what, a.slot[s]) ELSE a.err)
        : a \in Access(b, sl, d, s)}

\* errors of a request made with reqwest that checks the status
HttpErrs == {RequestError("http"), HttpRequestFailed}

\* how the device takes the reboot command: the connection is refused, it is
\* dropped once the command is written, nothing comes back in time, or an
\* answer comes back (accepted, not authorized, any other)
RebootAnswers == {"refused", "dropped", "silent", "ok", "unauthorized", "error"}

\* the request did not come back with a response
NoResponse(ans) == ans \in {"refused", "dropped", "silent"}

(* ---- Antminer (src/src/miners/antminer/antminer.rs) ---- *)
\* a request that fails is the success of the reboot, a response its failure
Antminer_reboot(sl, d, ans) ==
    IF NoResponse(ans)
    THEN {Out(invalidate("Antminer", sl), d, Done)}
    ELSE {Out(sl, d, ApiCallFailed("Reboot failed"))}

Antminer_get_pools(sl, d) == Getter("Antminer", sl, d, "miner_conf", "pools")

\* the guard of miner_conf is alive when invalidate() asks for that lock again
Antminer_set_pools(sl, d, pools) ==
    UNION {
        IF a.err # NoRes
        THEN {Out(a.slot, d, a.err)}
        ELSE {Out(a.slot, d, e) : e \in HttpErrs}
             \cup {Blocked([a.slot EXCEPT !["summary"] = None], Reconfigured(d), "miner_conf")}
        : a \in Access("Antminer", sl, d, "miner_conf")}

Antminer_get_sleep(sl, d) == Getter("Antminer", sl, d, "miner_conf", "sleep")

Antminer_set_sleep(sl, d, sleep) ==
    {Out(sl, d, e) : e \in HttpErrs}
    \cup {Out(invalidate("Antminer", sl), [d EXCEPT !.sleep = sleep], Done)}

Antminer_get_blink(sl, d) ==
    {Out(sl, d, e) : e \in HttpErrs \cup {ParseError, ExpectedReturn}}
    \cup {Out(sl, d, OkBool(d.blink))}

Antminer_set_blink(sl, d, blink) ==
    {Out(sl, d, e) : e \in HttpErrs} \cup {Out(sl, [d EXCEPT !.blink = blink], Done)}

(* ---- Avalon (src/src/miners/avalon/avalon.rs) ---- *)
\* Client::send: connect and write, no answer is read
Avalon_reboot(sl, d, ans) ==
    CASE ans = "refused" -> {Out(sl, d, NoHostDetected)}
      [] ans = "silent"  -> {Out(sl, d, Timeout), Out(sl, d, Done)}
      [] OTHER           -> {Out(sl, d, Done)}

Avalon_get_pools(sl, d) ==
    {Out(sl, d, e) : e \in SendRecvErrs \cup {ParseError}} \cup {Out(sl, d, Ok("pools", ""))}

Avalon_set_pools(sl, d, pools) ==
    {Out(sl, d, e) : e \in SendRecvErrs \cup {ApiCallFailed("a")}}
    \cup {Out(sl, Reconfigured(d), Done)}

Avalon_get_sleep(sl, d) == Getter("Avalon", sl, d, "estats", "sleep")

Avalon_set_sleep(sl, d, sleep) ==
    IF sleep
    THEN {Out(sl, d, e) : e \in SendRecvErrs \cup {ParseError, ApiCallFailed("a")}}
         \cup {Out(invalidate("Avalon", sl), [d EXCEPT !.sleep = TRUE], Done)}
    ELSE {Out(invalidate("Avalon", sl), IF o.res = Done THEN [d EXCEPT !.sleep = FALSE] ELSE d, o.res)
            : o \in UNION {Avalon_reboot(sl, d, ans) : ans \in RebootAnswers}}

Avalon_get_blink(sl, d) ==
    {Out(sl, d, e) : e \in SendRecvErrs \cup {ParseError, InvalidResponse, ApiCallFailed("a")}}
    \cup {Out(sl, d, OkBool(d.blink))}

Avalon_set_blink(sl, d, blink) ==
    {Out(sl, d, e) : e \in SendRecvErrs \cup {ParseError, ApiCallFailed("a")}}
    \cup {Out(sl, [d EXCEPT !.blink = blink], Done)}

Avalon_get_profile(sl, d) ==
    Getter("Avalon", sl, d, "estats", "profile")
    \cup {Out(a.slot, d, InvalidResponse)
            : a \in {x \in Access("Avalon", sl, d, "estats") : x.err = NoRes}}

\* get_model(), the workmode command, then reboot(): no invalidate()
Avalon_set_profile(sl, d, profile) ==
    UNION {
        IF a.err # NoRes THEN {Out(a.slot, d, a.err)}
        ELSE IF profile \in {"Preset", "Manual"} THEN {Out(a.slot, d, NotSupported)}
        ELSE {Out(a.slot, d, e)
                : e \in SendRecvErrs \cup {InvalidResponse, ApiCallFailed("a")}}
             \cup UNION {Avalon_reboot(a.slot, Reconfigured(d), ans) : ans \in RebootAnswers}
        : a \in Access("Avalon", sl, d, "model")}

(* ---- Vnish (src/src/miners/vnish/mod.rs) ---- *)
\* the restart request; once it is answered invalidate() runs, whatever the status
Vnish_reboot(sl, d, ans) ==
    CASE NoResponse(ans)      -> {Out(sl, d, RequestError("http"))}
      [] ans = "ok"           -> {Out(invalidate("Vnish", sl), d, Done)}
      [] ans = "unauthorized" -> {Out(invalidate("Vnish", sl), d, Unauthorized)}
      [] OTHER                -> {Out(invalidate("Vnish", sl), d, ApiCallFailed("mining/restart"))}

Vnish_get_pools(sl, d) == Getter("Vnish", sl, d, "settings", "pools")

Vnish_set_pools(sl, d, pools) ==
    {Out(sl, d, e) : e \in {RequestError("http"), ApiCallFailed("settings")}}
    \cup {Out(invalidate("Vnish", sl), Reconfigured(d), Done)}

Vnish_get_sleep(sl, d) == Getter("Vnish", sl, d, "summary", "sleep")

\* get_sleep() first; both requests `return` their result, so that the
\* invalidate() at the end runs only after "mining/start not ready"
Vnish_set_sleep(sl, d, sleep) ==
    UNION {
        IF a.err # NoRes THEN {Out(a.slot, d, a.err)}
        ELSE IF a.slot["summary"].sleep = sleep THEN {Out(a.slot, d, Done)}
        ELSE IF sleep
        THEN {Out(a.slot, d, e)
                : e \in {RequestError("http"), ApiCallFailed("mining/stop failed")}}
             \cup {Out(a.slot, [d EXCEPT !.sleep = TRUE], Done)}
        ELSE {Out(a.slot, d, e)
                : e \in {RequestError("http"), ApiCallFailed("mining/start failed")}}
             \cup {Out(a.slot, [d EXCEPT !.sleep = FALSE], Done)}
             \cup {Out(invalidate("Vnish", a.slot), d, ApiCallFailed("mining/start not ready"))}
        : a \in Access("Vnish", sl, d, "summary")}

Vnish_get_blink(sl, d) == Getter("Vnish", sl, d, "status", "blink")

Vnish_set_blink(sl, d, blink) ==
    UNION {
        IF a.err # NoRes THEN {Out(a.slot, d, a.err)}
        ELSE IF a.slot["status"].blink = blink THEN {Out(a.slot, d, Done)}
        ELSE {Out(a.slot, d, e)
                : e \in {RequestError("http"), ApiCallFailed("find_miner failed")}}
             \cup {Out(a.slot, [d EXCEPT !.blink = blink], Done)}
        : a \in Access("Vnish", sl, d, "status")}

\* get_profiles() and then get_settings()
Vnish_get_profile(sl, d) ==
    UNION {
        IF p.err # NoRes THEN {Out(p.slot, d, p.err)}
        ELSE Getter("Vnish", p.slot, d, "settings", "profile")
        : p \in Access("Vnish", sl, d, "presets")}

\* get_profiles(), the preset looked up, get_settings(), the settings request,
\* then reboot()? and invalidate()
Vnish_set_profile(sl, d, profile) ==
    UNION {
        IF p.err # NoRes THEN {Out(p.slot, d, p.err)}
        ELSE (IF profile # "Default"
              THEN {Out(p.slot, d, ApiCallFailed("Invalid profile"))} ELSE {})
          \cup (IF profile = "LowPower" THEN {}
                ELSE UNION {
                    IF s.err # NoRes THEN {Out(s.slot, d, s.err)}
                    ELSE {Out(s.slot, d, e)
                            : e \in {RequestError("http"), ApiCallFailed("settings")}}
                         \cup {Out(IF o.res = Done THEN invalidate("Vnish", o.slot) ELSE o.slot,
                                   o.dev, o.res)
                                 : o \in UNION {Vnish_reboot(s.slot, Reconfigured(d), ans)
                                                   : ans \in RebootAnswers}}
                    : s \in Access("Vnish", p.slot, d, "settings")})
        : p \in Access("Vnish", sl, d, "presets")}

(* ---- Whatsminer (src/src/miners/whatsminer/whatsminer.rs) ---- *)
\* send_recv_enc: no token, the socket, the answer not JSON
EncErrs == {Unauthorized, ApiCallFailed("Failed to parse JSON")} \cup SendRecvErrs

\* send_recv_enc(..)?: without a token nothing is sent; a connection that is
\* dropped ends the read with an error or with an empty answer
Whatsminer_reboot(sl, d, ans) ==
    CASE ans = "refused"      -> {Out(sl, d, NoHostDetected)}
      [] ans = "dropped"      -> {Out(sl, d, IoError("read")),
                                  Out(sl, d, ApiCallFailed("Failed to parse JSON"))}
      [] ans = "silent"       -> {Out(sl, d, Timeout)}
      [] ans = "ok"           -> {Out(sl, d, Done)}
      [] ans = "unauthorized" -> {Out(sl, d, Unauthorized)}
      [] OTHER                -> {Out(sl, d, ApiCallFailed("Failed to parse JSON"))}

Whatsminer_get_pools(sl, d) ==
    {Out(sl, d, e) : e \in SendRecvErrs \cup {ParseError}} \cup {Out(sl, d, Ok("pools", ""))}

\* pools[0], pools[1], pools[2] are indexed before anything is sent
Whatsminer_set_pools(sl, d, pools) ==
    IF pools = "short" THEN {Out(sl, d, Panic)}
    ELSE {Out(sl, d, e) : e \in EncErrs}
         \cup {Out(invalidate("Whatsminer", sl), Reconfigured(d), Done)}

\* get_hashrate() reads summary; without hashrate the status command and the
\* process listing decide
Whatsminer_get_sleep(sl, d) ==
    UNION {
        IF a.err # NoRes THEN {Out(a.slot, d, a.err)}
        ELSE IF ~a.slot["summary"].sleep THEN {Out(a.slot, d, OkBool(FALSE))}
        ELSE {Out(a.slot, d, OkBool(v)) : v \in BOOLEAN}
        : a \in Access("Whatsminer", sl, d, "summary")}

\* a timeout of power_off counts as success, and returns without invalidate()
Whatsminer_set_sleep(sl, d, sleep) ==
    {IF sleep /\ e = Timeout THEN Out(sl, d2, Done) ELSE Out(sl, d, e)
        : e \in EncErrs, d2 \in {d, [d EXCEPT !.sleep = TRUE]}}
    \cup {Out(sl, d, e) : e \in {ParseError, ApiCallFailed("a")}}
    \cup {Out(invalidate("Whatsminer", sl), [d EXCEPT !.sleep = sleep], Done)}

Whatsminer_get_blink(sl, d) ==
    {Out(sl, d, e) : e \in SendRecvErrs \cup {ParseError}}
    \cup {Out(sl, d, OkBool(v)) : v \in {FALSE, d.blink}}

Whatsminer_set_blink(sl, d, blink) ==
    {Out(sl, d, e) : e \in EncErrs} \cup {Out(sl, [d EXCEPT !.blink = blink], Done)}

(* ---- Minera and Minerva (src/src/miners/minerva/minerva.rs) ---- *)
Minera_reboot(sl, d, ans) ==
    CASE NoResponse(ans) -> {Out(sl, d, RequestError("http"))}
      [] ans = "ok"      -> {Out(sl, d, Done)}
      [] OTHER           -> {Out(sl, d, HttpRequestFailed)}

Minera_get_pools(sl, d) ==
    {Out(sl, d, e) : e \in HttpErrs} \cup {Out(sl, d, Ok("pools", ""))}

Minera_set_pools(sl, d, pools) ==
    {Out(sl, d, e) : e \in HttpErrs}
    \cup {Out(invalidate("Minera", sl), Reconfigured(d), Done)}

\* the result of the request is dropped
Minerva_reboot(sl, d, ans) == {Out(sl, d, Done)}

Minerva_get_pools(sl, d) ==
    {Out(sl, d, e) : e \in HttpErrs} \cup {Out(sl, d, Ok("pools", ""))}

Minerva_set_pools(sl, d, pools) ==
    IF pools = "short" THEN {Out(sl, d, Panic)}
    ELSE {Out(sl, d, e) : e \in HttpErrs} \cup {Out(sl, Reconfigured(d), Done)}

Minerva_get_sleep(sl, d) ==
    {Out(sl, d, e) : e \in HttpErrs \cup {ExpectedReturn}} \cup {Out(sl, d, OkBool(d.sleep))}

Minerva_set_sleep(sl, d, sleep) ==
    {Out(sl, d, e) : e \in HttpErrs \cup {ExpectedReturn}} \cup {Out(sl, [d EXCEPT !.sleep = sleep], Done)}

Minerva_get_blink(sl, d) ==
    {Out(sl, d, e) : e \in HttpErrs} \cup {Out(sl, d, OkBool(d.blink))}

Minerva_set_blink(sl, d, blink) ==
    {Out(sl, d, e) : e \in HttpErrs} \cup {Out(sl, [d EXCEPT !.blink = blink], Done)}

(* ---- dyn Miner: the call goes to the backend of the handle; the other ---- *)
(* ---- backends answer Err(NotSupported)                              ---- *)
reboot(b, sl, d, ans) ==
    CASE b = "Antminer"   -> Antminer_reboot(sl, d, ans)
      [] b = "Avalon"     -> Avalon_reboot(sl, d, ans)
      [] b = "Vnish"      -> Vnish_reboot(sl, d, ans)
      [] b = "Whatsminer" -> Whatsminer_reboot(sl, d, ans)
      [] b = "Minera"     -> Minera_reboot(sl, d, ans)
      [] OTHER            -> Minerva_reboot(sl, d, ans)

get_pools(b, sl, d) ==
    CASE b = "Antminer"   -> Antminer_get_pools(sl, d)
      [] b = "Avalon"     -> Avalon_get_pools(sl, d)
      [] b = "Vnish"      -> Vnish_get_pools(sl, d)
      [] b = "Whatsminer" -> Whatsminer_get_pools(sl, d)
      [] b = "Minera"     -> Minera_get_pools(sl, d)
      [] OTHER            -> Minerva_get_pools(sl, d)

set_pools(b, sl, d, pools) ==
    CASE b = "Antminer"   -> Antminer_set_pools(sl, d, pools)
      [] b = "Avalon"     -> Avalon_set_pools(sl, d, pools)
      [] b = "Vnish"      -> Vnish_set_pools(sl, d, pools)
      [] b = "Whatsminer" -> Whatsminer_set_pools(sl, d, pools)
      [] b = "Minera"     -> Minera_set_pools(sl, d, pools)
      [] OTHER            -> Minerva_set_pools(sl, d, pools)

get_sleep(b, sl, d) ==
    CASE b = "Antminer"   -> Antminer_get_sleep(sl, d)
      [] b = "Avalon"     -> Avalon_get_sleep(sl, d)
      [] b = "Vnish"      -> Vnish_get_sleep(sl, d)
      [] b = "Whatsminer" -> Whatsminer_get_sleep(sl, d)
      [] b = "Minerva"    -> Minerva_get_sleep(sl, d)
      [] OTHER            -> {Out(sl, d, NotSupported)}

set_sleep(b, sl, d, sleep) ==
    CASE b = "Antminer"   -> Antminer_set_sleep(sl, d, sleep)
      [] b = "Avalon"     -> Avalon_set_sleep(sl, d, sleep)
      [] b = "Vnish"      -> Vnish_set_sleep(sl, d, sleep)
      [] b = "Whatsminer" -> Whatsminer_set_sleep(sl, d, sleep)
      [] b = "Minerva"    -> Minerva_set_sleep(sl, d, sleep)
      [] OTHER            -> {Out(sl, d, NotSupported)}

get_blink(b, sl, d) ==
    CASE b = "Antminer"   -> Antminer_get_blink(sl, d)
      [] b = "Avalon"     -> Avalon_get_blink(sl, d)
      [] b = "Vnish"      -> Vnish_get_blink(sl, d)
      [] b = "Whatsminer" -> Whatsminer_get_blink(sl, d)
      [] b = "Minerva"    -> Minerva_get_blink(sl, d)
      [] OTHER            -> {Out(sl, d, NotSupported)}

set_blink(b, sl, d, blink) ==
    CASE b = "Antminer"   -> Antminer_set_blink(sl, d, blink)
      [] b = "Avalon"     -> Avalon_set_blink(sl, d, blink)
      [] b = "Vnish"      -> Vnish_set_blink(sl, d, blink)
      [] b = "Whatsminer" -> Whatsminer_set_blink(sl, d, blink)
      [] b = "Minerva"    -> Minerva_set_blink(sl, d, blink)
      [] OTHER            -> {Out(sl, d, NotSupported)}

\* get_model: Antminer reads sys_info, Avalon its model slot (filled from
\* version), Vnish info, Whatsminer its model slot; Minera and Minerva answer
\* a constant
get_model(b, sl, d) ==
    CASE b = "Antminer"   -> Getter("Antminer", sl, d, "sys_info", "model")
      [] b = "Avalon"     -> Getter("Avalon", sl, d, "model", "model")
      [] b = "Vnish"      -> Getter("Vnish", sl, d, "info", "model")
      [] b = "Whatsminer" -> Getter("Whatsminer", sl, d, "model", "model")
      [] OTHER            -> {Out(sl, d, Ok("model", ""))}

get_profile(b, sl, d) ==
    CASE b = "Avalon"     -> Avalon_get_profile(sl, d)
      [] b = "Vnish"      -> Vnish_get_profile(sl, d)
      [] OTHER            -> {Out(sl, d, NotSupported)}

set_profile(b, sl, d, profile) ==
    CASE b = "Avalon"     -> Avalon_set_profile(sl, d, profile)
      [] b = "Vnish"      -> Vnish_set_profile(sl, d, profile)
      [] OTHER            -> {Out(sl, d, NotSupported)}

BoolStr(v) == IF v THEN "true" ELSE "false"

OpsInit ==
    /\ backend \in Backends
    /\ dev \in Devs
    /\ slot = [s \in Slots(backend) |-> None]
    /\ lock = [s \in Slots(backend) |-> <<>>]
    /\ rd = [r \in Readers |-> Idle]
    /\ nreads = 0
    /\ fetches = [s \in Slots(backend) |-> 0]
    /\ rets = [s \in Slots(backend) |-> <<>>]
    /\ lastOp = NoOp

\* no call on the handle is pending: it can be borrowed
Callable == lastOp.res.tag # "Pending"

\* the call op(arg) ends as outcome o; a call that waits for a lock it
\* holds itself is queued (as task 0) behind itself
Apply(op, arg, o) ==
    /\ Callable
    /\ slot' = o.slot
    /\ dev' = o.dev
    /\ lastOp' = [op |-> op, arg |-> arg, res |-> o.res]
    /\ lock' = IF o.blocked = "" THEN lock
               ELSE [lock EXCEPT ![o.blocked] = <<0, 0>>]
    /\ UNCHANGED <<backend, rd, nreads, fetches, rets>>
    /\ UNCHANGED <<clientVars, mergeVars, extVars>>

\* the handle is a LockMiner: get_miner wrapped the backend with its permit
Guarded == \E t \in Tasks : pc[t] = "handle" /\ held[t]

\* impl Miner for LockMiner, set_blink passed on to the set_sleep of the backend
LockMiner_crossed(op, b, sl, d, arg) ==
    CASE op = "reboot"      -> reboot(b, sl, d, arg)
      [] op = "get_pools"   -> get_pools(b, sl, d)
      [] op = "set_pools"   -> set_pools(b, sl, d, arg)
      [] op = "get_sleep"   -> get_sleep(b, sl, d)
      [] op = "set_sleep"   -> set_sleep(b, sl, d, arg)
      [] op = "get_blink"   -> get_blink(b, sl, d)
      [] op = "set_blink"   -> set_sleep(b, sl, d, arg)
      [] op = "get_profile" -> get_profile(b, sl, d)
      [] op = "get_model"   -> get_model(b, sl, d)
      [] OTHER              -> set_profile(b, sl, d, arg)

\* impl Miner for LockMiner: each method is self.miner.<method>(args).await
LockMiner(op, b, sl, d, arg) ==
    CASE op = "reboot"      -> reboot(b, sl, d, arg)
      [] op = "get_pools"   -> get_pools(b, sl, d)
      [] op = "set_pools"   -> set_pools(b, sl, d, arg)
      [] op = "get_sleep"   -> get_sleep(b, sl, d)
      [] op = "set_sleep"   -> set_sleep(b, sl, d, arg)
      [] op = "get_blink"   -> get_blink(b, sl, d)
      [] op = "set_blink"   -> set_blink(b, sl, d, arg)
      [] op = "get_profile" -> get_profile(b, sl, d)
      [] op = "get_model"   -> get_model(b, sl, d)
      [] OTHER              -> set_profile(b, sl, d, arg)

\* the argument recorded for reboot is how the device took the command
Reboot ==
    \E ans \in RebootAnswers :
        \E o \in IF Guarded THEN LockMiner("reboot", backend, slot, dev, ans)
                  ELSE reboot(backend, slot, dev, ans) :
            Apply("reboot", ans, o)

GetPools ==
    \E o \in IF Guarded THEN LockMiner("get_pools", backend, slot, dev, "")
              ELSE get_pools(backend, slot, dev) :
        Apply("get_pools", "", o)

SetPools ==
    \E pools \in PoolArgs :
        \E o \in IF Guarded THEN LockMiner("set_pools", backend, slot, dev, pools)
                  ELSE set_pools(backend, slot, dev, pools) :
            Apply("set_pools", pools, o)

GetSleep ==
    \E o \in IF Guarded THEN LockMiner("get_sleep", backend, slot, dev, "")
              ELSE get_sleep(backend, slot, dev) :
        Apply("get_sleep", "", o)

SetSleep ==
    \E sleep \in BOOLEAN :
        \E o \in IF Guarded THEN LockMiner("set_sleep", backend, slot, dev, sleep)
                  ELSE set_sleep(backend, slot, dev, sleep) :
            Apply("set_sleep", BoolStr(sleep), o)

GetBlink ==
    \E o \in IF Guarded THEN LockMiner("get_blink", backend, slot, dev, "")
              ELSE get_blink(backend, slot, dev) :
        Apply("get_blink", "", o)

SetBlink ==
    \E blink \in BOOLEAN :
        \E o \in IF Guarded THEN LockMiner("set_blink", backend, slot, dev, blink)
                  ELSE set_blink(backend, slot, dev, blink) :
            Apply("set_blink", BoolStr(blink), o)

GetModel ==
    \E o \in IF Guarded THEN LockMiner("get_model", backend, slot, dev, "")
              ELSE get_model(backend, slot, dev) :
        Apply("get_model", "", o)

GetProfile ==
    \E o \in IF Guarded THEN LockMiner("get_profile", backend, slot, dev, "")
              ELSE get_profile(backend, slot, dev) :
        Apply("get_profile", "", o)

SetProfile ==
    \E profile \in Profiles :
        \E o \in IF Guarded THEN LockMiner("set_profile", backend, slot, dev, profile)
                  ELSE set_profile(backend, slot, dev, profile) :
            Apply("set_profile", profile, o)

\* the caller gives up a call that does not return: its future and guards are dropped
Abandon ==
    /\ ~Callable
    /\ lock' = [s \in DOMAIN lock |-> <<>>]
    /\ lastOp' = [lastOp EXCEPT !.res = NoRes]
    /\ UNCHANGED <<backend, dev, slot, rd, nreads, fetches, rets>>
    /\ UNCHANGED <<clientVars, mergeVars, extVars>>

\* the device changes under the handle
Drift ==
    /\ Callable
    /\ DeviceChange

OpsNext ==
    \/ Reboot
    \/ GetPools \/ SetPools
    \/ GetSleep \/ SetSleep
    \/ GetBlink \/ SetBlink
    \/ GetProfile \/ SetProfile
    \/ GetModel
    \/ Abandon
    \/ Drift

OpsSpecInit == ClientIdle /\ MergeIdle /\ OpsInit /\ ExtIdle

OpsSpec == OpsSpecInit /\ [][OpsNext]_vars

\* get_miner of a budgeted Client has returned LockMiner::new_locked(miner, permit)
\* to task 1
LockedHandle ==
    /\ max_connections = 1
    /\ permits = 0
    /\ waiters = <<>>
    /\ pc = [t \in Tasks |-> IF t = 1 THEN "handle" ELSE "idle"]
    /\ loc = [t \in Tasks |-> IF t = 1 THEN Ok(backend, "") ELSE NoRes]
    /\ held = [t \in Tasks |-> t = 1]
    /\ ret = [what |-> "get_miner", result |-> Ok(backend, ""), locked |-> TRUE]

GuardSpecInit == OpsInit /\ LockedHandle /\ MergeIdle /\ ExtIdle

\* the public operations called on a LockMiner
GuardSpec == GuardSpecInit /\ [][OpsNext]_vars

(***************************************************************************)
(* Claims about the mutating operations.                                   *)
(***************************************************************************)
\* the outcomes of the getter that corresponds to a mutating operation
GetterOf(op, b, sl, d) ==
    CASE op = "set_pools"   -> get_pools(b, sl, d)
      [] op = "set_sleep"   -> get_sleep(b, sl, d)
      [] op = "set_blink"   -> get_blink(b, sl, d)
      [] op = "set_profile" -> get_profile(b, sl, d)
      [] OTHER              -> {}

\* the slots that getter reads: those it fills on a handle whose slots are Empty
GetterSlots(op, b) ==
    {s \in Slots(b) :
        \E d \in Devs : \E o \in GetterOf(op, b, [x \in Slots(b) |-> None], d) :
            o.slot[s] # None}

Mutators == {"set_pools", "set_sleep", "set_blink", "set_profile"}

\* C10: on every backend, when set_pools, set_sleep, set_blink or set_profile
\* has returned Ok, every slot that get_pools, get_sleep, get_blink or
\* get_profile respectively reads is Empty.
C10_MutatorEmptiesGetterSlots ==
    (lastOp.op \in Mutators /\ lastOp.res = Done) =>
        \A s \in GetterSlots(lastOp.op, backend) : slot[s] = None

\* Vnish set_sleep(true) returned Ok and the summary slot still holds the
\* summary of the mining device
C10_StaleAfterSetSleep ==
    /\ backend = "Vnish"
    /\ lastOp = [op |-> "set_sleep", arg |-> "true", res |-> Done]
    /\ dev.sleep
    /\ slot["summary"].tag = "Some" /\ ~slot["summary"].sleep

(***************************************************************************)
(* Whatsminer session tokens: Client.tokens (the store shared by the       *)
(* handles of one Client), Whatsminer.token, and the encrypted call.       *)
(***************************************************************************)
MaxTime == 1           \* the clock runs over 0..MaxTime
MaxLife == 1           \* a fresh token expires 1..MaxLife ticks after it is made

\* the Whatsminer handles built from one Client
Handles == {1, 2}

\* the devices: (ip, port) passed to get_miner
Hosts == {<<"a", 4028>>, <<"a", 4029>>, <<"b", 4028>>}

\* Option<WhatsminerToken> / the CacheItem of the store: host is the device that
\* made the token, exp its expiry (CacheItem.token_expires = token.expires)
NoTok == [tag |-> "None", host |-> <<"", 0>>, exp |-> 0]

\* TokenResponse::make_token on the answer of the device at host
make_token(host, n, life) == [tag |-> "Tok", host |-> host, exp |-> n + life]

\* WhatsminerToken::is_expired
is_expired(t, n) == t.exp <= n

\* what the device answers to {"cmd": "get_token"}: an error of the socket, an
\* answer that is no TokenResponse, an answer make_token rejects, or a token
ShakeAnswers ==
    SendRecvErrs \cup {ParseError, ApiCallFailed("Failed to make token")}
        \cup {Ok("token", "")}

\* the answers to the encrypted command once it has been sent
WireAnswers == SendRecvErrs \cup {ApiCallFailed("Failed to parse JSON"), Done}

\* the store's token is taken whatever its expiry
token_cached_any(hd, st, n) ==
    IF hd.token = NoTok /\ hd.cache /\ st[hd.ip] # NoTok THEN st[hd.ip] ELSE NoTok

\* token_cached up to its call of refresh_token: the token it takes from the
\* store, NoTok when it goes on to refresh
token_cached(hd, st, n) ==
    IF hd.token = NoTok /\ hd.cache /\ st[hd.ip] # NoTok /\ st[hd.ip].exp > n
    THEN st[hd.ip] ELSE NoTok

\* the token made is not put into the store
refresh_token_unsaved(hd, st, n, ans, life) ==
    IF ans.tag = "Err" THEN [hd |-> hd, st |-> st, res |-> ans]
    ELSE [hd |-> [hd EXCEPT !.token = make_token(<<hd.ip, hd.port>>, n, life)],
          st |-> st, res |-> Done]

\* refresh_token from the answer to get_token on: the handle and the store
refresh_token(hd, st, n, ans, life) ==
    IF ans.tag = "Err" THEN [hd |-> hd, st |-> st, res |-> ans]
    ELSE LET token == make_token(<<hd.ip, hd.port>>, n, life)
         IN  [hd |-> [hd EXCEPT !.token = token],
              st |-> IF hd.cache THEN [st EXCEPT ![hd.ip] = token] ELSE st,
              res |-> Done]

\* the last operation that ended: its handle, its result, the get_token
\* requests it made, whether it took its token from the store, whether it sent
\* the encrypted command, and the time at which it checked the expiry
NoTokOp == [h |-> 0, res |-> NoRes, shakes |-> 0, adopted |-> FALSE, sent |-> FALSE,
            at |-> 0]

Ended(h, res, shakes, adopted, sent, at) ==
    [h |-> h, res |-> res, shakes |-> shakes, adopted |-> adopted, sent |-> sent,
     at |-> at]

\* st is "none" before the handle is built, "auth" or "enc" while the
\* get_token request of that operation is in flight, at the time of the
\* operation's check of the expiry
NoHandle == [st |-> "none", ip |-> "", port |-> 0, cache |-> FALSE,
             password |-> FALSE, token |-> NoTok, at |-> 0]

TokInit ==
    /\ now = 0
    /\ tokens \in BOOLEAN
    /\ store = [i \in {x[1] : x \in Hosts} |-> NoTok]
    /\ hand = [h \in Handles |-> NoHandle]
    /\ t_last = NoTokOp

\* Client::http_detect and Client::socket_detect build the Whatsminer handle:
\* the former with_cache(self.tokens.clone()), the latter with new only
Identify(h, host, probe) ==
    /\ hand[h].st = "none"
    /\ hand' = [hand EXCEPT ![h] =
                   [NoHandle EXCEPT !.st = "built", !.ip = host[1], !.port = host[2],
                                    !.cache = (probe = "http" /\ tokens)]]
    /\ UNCHANGED <<now, tokens, store, t_last>>
    /\ UNCHANGED <<clientVars, mergeVars, cacheVars, errVars, probeVars>>

\* Whatsminer::auth up to the answer of get_token; http is the outcome of the
\* POST to /cgi-bin/luci
Auth(h) ==
    /\ hand[h].st = "built"
    /\ \E http \in {"error", "403", "200"} :
        LET hd == [hand[h] EXCEPT !.password = TRUE]
            got == token_cached(hd, store, now)
        IN  IF http # "200"
            THEN /\ hand' = [hand EXCEPT ![h] = hd]
                 /\ t_last' = Ended(h, IF http = "error" THEN RequestError("http")
                                       ELSE Unauthorized, 0, FALSE, FALSE, now)
            ELSE IF got # NoTok
            THEN /\ hand' = [hand EXCEPT ![h] = [hd EXCEPT !.token = got]]
                 /\ t_last' = Ended(h, Done, 0, TRUE, FALSE, now)
            ELSE /\ hand' = [hand EXCEPT ![h] = [hd EXCEPT !.st = "auth", !.at = now]]
                 /\ UNCHANGED t_last
    /\ UNCHANGED <<now, tokens, store>>
    /\ UNCHANGED <<clientVars, mergeVars, cacheVars, errVars, probeVars>>

\* send_recv_enc (reboot, set_pools, ...) up to the answer of get_token, or
\* through to the answer of the command when the token needs no refresh
EncCall(h) ==
    /\ hand[h].st = "built"
    /\ LET hd == hand[h]
       IN  IF hd.token = NoTok
           THEN /\ t_last' = Ended(h, Unauthorized, 0, FALSE, FALSE, now)
                /\ UNCHANGED hand
           ELSE IF is_expired(hd.token, now)
           THEN IF hd.password
                THEN /\ hand' = [hand EXCEPT ![h] = [hd EXCEPT !.st = "enc", !.at = now]]
                     /\ UNCHANGED t_last
                ELSE /\ t_last' = Ended(h, Unauthorized, 0, FALSE, FALSE, now)
                     /\ UNCHANGED hand
           ELSE /\ \E wire \in WireAnswers : t_last' = Ended(h, wire, 0, FALSE, TRUE, now)
                /\ UNCHANGED hand
    /\ UNCHANGED <<now, tokens, store>>
    /\ UNCHANGED <<clientVars, mergeVars, cacheVars, errVars, probeVars>>

\* the answer to get_token arrives: refresh_token ends, and with it auth; in
\* send_recv_enc the command is sent with the token just made
Shake(h) ==
    /\ hand[h].st \in {"auth", "enc"}
    /\ \E ans \in ShakeAnswers :
       \E life \in IF ans.tag = "Err" THEN {1} ELSE 1..MaxLife :
       \E wire \in IF ans.tag = "Err" \/ hand[h].st = "auth" THEN {Done} ELSE WireAnswers :
        LET r == refresh_token(hand[h], store, now, ans, life)
        IN  /\ hand' = [hand EXCEPT ![h] = [r.hd EXCEPT !.st = "built", !.at = 0]]
            /\ store' = r.st
            /\ t_last' = IF r.res # Done \/ hand[h].st = "auth"
                         THEN Ended(h, r.res, 1, FALSE, FALSE, hand[h].at)
                         ELSE Ended(h, wire, 1, FALSE, TRUE, hand[h].at)
    /\ UNCHANGED <<now, tokens>>
    /\ UNCHANGED <<clientVars, mergeVars, cacheVars, errVars, probeVars>>

\* time passes
Tick ==
    /\ now < MaxTime
    /\ now' = now + 1
    /\ UNCHANGED <<tokens, store, hand, t_last>>
    /\ UNCHANGED <<clientVars, mergeVars, cacheVars, errVars, probeVars>>

TokNext ==
    \/ \E h \in Handles : \E host \in Hosts : \E probe \in {"http", "socket"} :
          Identify(h, host, probe)
    \/ \E h \in Handles : Auth(h)
    \/ \E h \in Handles : EncCall(h)
    \/ \E h \in Handles : Shake(h)
    \/ Tick

TokSpecInit == ClientIdle /\ MergeIdle /\ CacheIdle /\ TokInit /\ ErrIdle /\ ProbeIdle

TokSpec == TokSpecInit /\ [][TokNext]_vars

(***************************************************************************)
(* Claims about the session tokens.                                        *)
(***************************************************************************)
\* handle h sends get_token in this step
ShakeStarts(h) == hand[h].st = "built" /\ hand'[h].st \in {"auth", "enc"}

\* the encrypted call of h that found its token expired sends its command in
\* this step, after its one get_token, and the store then holds the token made
RefreshedThenSent(h) ==
    (hand[h].st = "enc" /\ hand'[h].st = "built" /\ t_last'.sent) =>
        /\ t_last'.h = h /\ t_last'.shakes = 1
        /\ hand[h].token.exp <= hand[h].at
        /\ hand'[h].token.exp > now
        /\ store'[hand[h].ip] = hand'[h].token

C13_EveryHandleAttached ==
    tokens => \A h \in Handles : hand[h].st # "none" => hand[h].cache

\* C14: a handle holds only tokens made by its own host (ip and port); so no
\* token stored for one host is taken by a handle of another host.
C14_TokenOfOwnHost ==
    \A h \in Handles :
        hand[h].token # NoTok => hand[h].token.host = <<hand[h].ip, hand[h].port>>

\* the handle for a:4029 has taken the token that a:4028 made
C14_TokenOfOtherPort ==
    \E h \in Handles :
        /\ hand[h].ip = "a" /\ hand[h].port = 4029
        /\ hand[h].token.host = <<"a", 4028>>
        /\ t_last.h = h /\ t_last.adopted

\* a handle built by the socket probe of a Client with token caching is not
\* attached to the store, and its refresh has left the store empty
C13_SocketHandleDetached ==
    \E h \in Handles :
        /\ tokens /\ hand[h].st = "built" /\ ~hand[h].cache
        /\ hand[h].token # NoTok /\ store[hand[h].ip] = NoTok

(***************************************************************************)
(* get_errors: the rule tables of the vendors and the pass over the log.   *)
(* A log is a sequence of lines; a line is the start marker of its         *)
(* backend, an occurrence of one rule's pattern with the text its groups   *)
(* capture, or text no rule matches.                                       *)
(***************************************************************************)
MaxLines == 3          \* lines of a log

\* IntMinerError { re, msg, error_type }: the capture groups of re, msg cut at
\* its "{}" placeholders, the category
Rule(g, m, t) == [groups |-> g, msg |-> m, error_type |-> t]

ANTMINER_ERRORS == <<
    Rule(2, <<"Chain ", "{}", " EEPROM CRC error">>, "HashBoard"),
    Rule(1, <<"Chain ", "{}", " load EEPROM fail">>, "HashBoard"),
    Rule(0, <<"Power lost">>, "Power"),
    Rule(0, <<"Fan lost">>, "Fan"),
    Rule(0, <<"Temperature too high">>, "Temperature"),
    Rule(0, <<"Read voltage failed">>, "Power"),
    Rule(2, <<"Chain ", "{}", " only find ", "{}", " asic">>, "HashBoard"),
    Rule(0, <<"I2C timeout">>, "ControlBoard"),
    Rule(1, <<"Chain ", "{}", " read pic temp fail">>, "HashBoard"),
    Rule(2, <<"Incorrect firmware (should be ", "{}", ", found ", "{}", ")">>, "Config"),
    Rule(1, <<"Chain ", "{}", " read temp sensor failed">>, "HashBoard")>>

VNISH_ERRORS == <<
    Rule(1, <<"Chain ", "{}", " - Failed to init pic controller">>, "HashBoard"),
    Rule(3, <<"Chain ", "{}", " - ", "{}", " of ", "{}", " chips detected">>, "HashBoard"),
    Rule(1, <<"Failed to set voltage to ", "{}", " mV">>, "Power"),
    Rule(1, <<"Chain ", "{}", " - Chain break detected">>, "HashBoard"),
    Rule(2, <<"Chain ", "{}", " - Overheated PCB ", "{}", " C">>, "Temperature"),
    Rule(2, <<"Chain ", "{}", " - Overheated Chip ", "{}", " C">>, "Temperature"),
    Rule(1, <<"Lost Fan ", "{}">>, "Fan"),
    Rule(1, <<"Chain ", "{}", " - Failed to init board temp sensors">>, "HashBoard"),
    Rule(1, <<"Chain ", "{}", " - Failed to power on the chain">>, "HashBoard"),
    Rule(2, <<"Chain ", "{}", " - Sensor ", "{}", " dead, temperature doesn't change">>, "HashBoard"),
    Rule(1, <<"Chain ", "{}", " - Failed to load eeprom data">>, "HashBoard")>>

MINERA_ERRORS == <<
    Rule(0, <<"PSU failed to power up">>, "Power"),
    Rule(0, <<"SPI ACK not found">>, "HashBoard"),
    Rule(1, <<"Fan ", "{}", " speed too low">>, "Fan"),
    Rule(1, <<"Chain ", "{}", " failure">>, "HashBoard")>>

MINERVA_ERRORS == <<
    Rule(1, <<"Fan ", "{}", " failed">>, "Fan"),
    Rule(1, <<"Board ", "{}", " ACK not found">>, "HashBoard"),
    Rule(1, <<"Voltage not up to standard">>, "Power"),
    Rule(0, <<"Unable to init power supply">>, "Power"),
    Rule(2, <<"Failed to init board ", "{}", " chip ", "{}">>, "HashBoard"),
    Rule(0, <<"I2C controller error">>, "ControlBoard"),
    Rule(0, <<"Connection interrupted, failed to flush server">>, "Network"),
    Rule(2, <<"Failed to read EEPROM device did not respond">>, "HashBoard"),
    Rule(0, <<"Fan not spinning up or sense fail">>, "Fan"),
    Rule(1, <<"Board temperature ", "{}", "C failed to cool below 40C">>, "Temperature")>>

WHATSMINER_ERRORS == <<
    Rule(1, <<"Fan ", "{}", " speed error">>, "Fan"),
    Rule(0, <<"Fan speed too high">>, "Fan"),
    Rule(0, <<"No power found">>, "Power"),
    Rule(0, <<"Power configuration mismatch">>, "Power"),
    Rule(0, <<"Power output voltage error">>, "Power"),
    Rule(0, <<"Power protection triggered">>, "Power"),
    Rule(0, <<"Power current error">>, "Power"),
    Rule(0, <<"Low input voltage">>, "Power"),
    Rule(0, <<"Input current protection">>, "Power"),
    Rule(0, <<"Power error status">>, "Power"),
    Rule(0, <<"Input voltage and current do not match">>, "Power"),
    Rule(0, <<"Power remained unchanged">>, "Power"),
    Rule(0, <<"Power enable error">>, "Power"),
    Rule(0, <<"Input voltage below 230V in high-perf mode">>, "Power"),
    Rule(0, <<"Power output over-temperature">>, "Power"),
    Rule(0, <<"Power output overcurrent">>, "Power"),
    Rule(0, <<"Power output over voltage">>, "Power"),
    Rule(0, <<"Power output under voltage">>, "Power"),
    Rule(0, <<"Power output current imbalance">>, "Power"),
    Rule(0, <<"Power input over-temperature">>, "Power"),
    Rule(0, <<"Power input overcurrent">>, "Power"),
    Rule(0, <<"Power input over voltage">>, "Power"),
    Rule(0, <<"Power input under voltage">>, "Power"),
    Rule(0, <<"PSU fan error">>, "Power"),
    Rule(0, <<"Power output over power">>, "Power"),
    Rule(0, <<"Input overcurrent protection on primary">>, "Power"),
    Rule(0, <<"Power communication warning">>, "Power"),
    Rule(0, <<"Power communication error">>, "Power"),
    Rule(0, <<"Power watchdog error">>, "Power"),
    Rule(0, <<"Excessive power output warning">>, "Power"),
    Rule(0, <<"Power input power too high">>, "Power"),
    Rule(0, <<"PSU fan warning">>, "Power"),
    Rule(0, <<"PSU over-temperature warning">>, "Power"),
    Rule(1, <<"Board ", "{}", " temperature sensor error">>, "HashBoard"),
    Rule(1, <<"Board ", "{}", " temperature reading error">>, "HashBoard"),
    Rule(0, <<"Control board temperature sensor error">>, "ControlBoard"),
    Rule(1, <<"Board ", "{}", " overheating">>, "Temperature"),
    Rule(0, <<"Board overheating">>, "Temperature"),
    Rule(1, <<"Board ", "{}", " EEPROM detect error">>, "HashBoard"),
    Rule(1, <<"Board ", "{}", " EEPROM parse error">>, "HashBoard"),
    Rule(1, <<"Board ", "{}", " EEPROM chip bin type error">>, "HashBoard"),
    Rule(1, <<"Board ", "{}", " EEPROM chip number error">>, "HashBoard"),
    Rule(1, <<"Board ", "{}", " EEPROM transfer error">>, "HashBoard"),
    Rule(1, <<"Board ", "{}", " type error">>, "HashBoard"),
    Rule(1, <<"Board ", "{}", " bin type error">>, "HashBoard"),
    Rule(1, <<"Board ", "{}", " not found">>, "HashBoard"),
    Rule(1, <<"Board ", "{}", " read chip id error">>, "HashBoard"),
    Rule(1, <<"Board ", "{}", " bad chip">>, "HashBoard"),
    Rule(1, <<"Board ", "{}", " loss balance">>, "HashBoard"),
    Rule(1, <<"Board ", "{}", " frequency up timeout">>, "HashBoard"),
    Rule(1, <<"Board ", "{}", " water velocity abnormal">>, "HashBoard"),
    Rule(0, <<"Overheating">>, "Temperature"),
    Rule(0, <<"Temperature too high in high-perf mode">>, "Temperature"),
    Rule(0, <<"Control board no support chip">>, "ControlBoard"),
    Rule(0, <<"Control board rebooted as exception">>, "ControlBoard"),
    Rule(0, <<"Cgminer checksum error">>, "ControlBoard"),
    Rule(0, <<"System-monitor checksum error">>, "ControlBoard"),
    Rule(0, <<"Remote-daemon checksum error">>, "ControlBoard"),
    Rule(0, <<"No pools configured">>, "Config"),
    Rule(0, <<"All pools disabled">>, "Config"),
    Rule(0, <<"Pool ", "{}", " connect failure">>, "Network"),
    Rule(0, <<"High pool reject rate">>, "Network"),
    Rule(0, <<"Pool does not support asicboost">>, "Config"),
    Rule(0, <<"Hashrate too low">>, "Other"),
    Rule(0, <<"Hashrate loss is too high">>, "Other"),
    Rule(0, <<"Incorrect firmware version">>, "Config"),
    Rule(0, <<"Corrupted firmware signature">>, "Config")>>

RulesOf(b) ==
    CASE b = "Antminer"   -> ANTMINER_ERRORS
      [] b = "Vnish"      -> VNISH_ERRORS
      [] b = "Minera"     -> MINERA_ERRORS
      [] b = "Minerva"    -> MINERVA_ERRORS
      [] b = "Whatsminer" -> WHATSMINER_ERRORS
      [] OTHER            -> <<>>

\* IntMinerError::get_msg: each captured text replaces the first placeholder
\* that is left (msg.replacen("{}", cap, 1))
get_msg(r, caps) ==
    LET RECURSIVE fill(_, _)
        fill(m, c) ==
            IF c = <<>> \/ \A i \in 1..Len(m) : m[i] # "{}" THEN m
            ELSE LET i == CHOOSE i \in 1..Len(m) :
                              m[i] = "{}" /\ \A k \in 1..(i - 1) : m[k] # "{}"
                 IN  fill([m EXCEPT ![i] = Head(c)], Tail(c))
        RECURSIVE join(_)
        join(m) == IF m = <<>> THEN "" ELSE Head(m) \o join(Tail(m))
    IN  join(fill(r.msg, caps))

\* The patterns are not anchored (Regex::captures searches the text), so a
\* pattern also matches where it occurs inside a longer code.  <<j, k, cap>>:
\* the pattern of rule j of WHATSMINER_ERRORS occurs in every code that the
\* pattern of rule k denotes, e.g. 201 in 2010, and captures cap there.
WHATSMINER_INSIDE ==
    {<<3, 59, "">>,     \* 200 in 2000
     <<4, 60, "">>,     \* 201 in 2010
     <<5, 61, "">>,     \* 202 in 202[0-2]
     <<6, 62, "">>,     \* 20[3,4] in 2030
     <<6, 63, "">>,     \* 20[3,4] in 2040
     <<1, 67, "0">>,    \* 1[0-3](0|1) in 10000[0-3]
     <<39, 66, "0">>,   \* 41([0-2]) in 8410
     <<44, 50, "1">>}   \* 51([0-2]) in 511([0-2])

\* whether the pattern of rule j matches in an occurrence of rule k: "no", or
\* the text it captures there ("own": it is the rule's own occurrence)
inside(rules, j, k) ==
    IF j = k THEN "own"
    ELSE IF rules = WHATSMINER_ERRORS /\ \E x \in WHATSMINER_INSIDE : x[1] = j /\ x[2] = k
    THEN (CHOOSE x \in WHATSMINER_INSIDE : x[1] = j /\ x[2] = k)[3]
    ELSE "no"

\* IntMinerError::get_err on a text: the leftmost match of rule j, at is its
\* line (0 when the pattern does not match)
get_err(rules, j, text) ==
    LET hits == {i \in 1..Len(text) : text[i].k = "hit" /\ inside(rules, j, text[i].rule) # "no"}
    IN  IF hits = {} THEN [at |-> 0, msg |-> "", error_type |-> ""]
        ELSE LET i == CHOOSE i \in hits : \A k \in hits : i <= k
                 cap == IF text[i].rule = j THEN text[i].cap
                        ELSE inside(rules, j, text[i].rule)
             IN  [at |-> i,
                  msg |-> get_msg(rules[j], [g \in 1..rules[j].groups |-> cap]),
                  error_type |-> rules[j].error_type]

MinerError(msg, t) == [msg |-> msg, error_type |-> t]

\* every entry is added, equal or not
insert_push(errors, e) == Append(errors, e)

\* HashSet::insert
insert(errors, e) ==
    IF \E i \in 1..Len(errors) : errors[i] = e THEN errors ELSE Append(errors, e)

\* the text from the first start marker on
since_first_start(text) ==
    LET marks == {i \in 1..Len(text) : text[i].k = "marker"}
    IN  IF marks = {} THEN text
        ELSE SubSeq(text, CHOOSE i \in marks : \A k \in marks : i <= k, Len(text))

\* &logs[re.find_iter(&logs).last().map(|m| m.start()).unwrap_or(0)..]
since_last_start(text) ==
    LET marks == {i \in 1..Len(text) : text[i].k = "marker"}
    IN  IF marks = {} THEN text
        ELSE SubSeq(text, CHOOSE i \in marks : \A k \in marks : i >= k, Len(text))

\* for err in RULES.iter() { if let Some(msg) = err.get_err(&log) { errors.insert(msg); } }
first_matches(rules, text, errors) ==
    LET RECURSIVE go(_, _)
        go(j, es) ==
            IF j > Len(rules) THEN es
            ELSE LET m == get_err(rules, j, text)
                 IN  go(j + 1, IF m.at = 0 THEN es
                               ELSE insert(es, MinerError(m.msg, m.error_type)))
    IN  go(1, errors)

\* faulty variant of all_matches: the search for a rule is not resumed
all_matches_no_resume(rules, text, errors) == first_matches(rules, text, errors)

\* for err in VNISH_ERRORS.iter() { let mut logs = logs;
\*   while let Some(msg) = err.get_err(&logs) { logs = &logs[end..]; errors.insert(msg); } }
all_matches(rules, text, errors) ==
    LET RECURSIVE go(_, _, _)
        go(j, rest, es) ==
            IF j > Len(rules) THEN es
            ELSE LET m == get_err(rules, j, rest)
                 IN  IF m.at = 0 THEN go(j + 1, text, es)
                     ELSE go(j, SubSeq(rest, m.at + 1, Len(rest)),
                             insert(es, MinerError(m.msg, m.error_type)))
    IN  go(1, text, errors)

MissingBoards == MinerError("Missing Board(s)", "HashBoard")

\* d.have: stats.get(0) is Some; d.n: chain_num; d.low: the chains whose
\* rate_real is below 0.9 of rate_ideal, by index
Antminer_get_errors(log, d) ==
    LET e1 == IF d.have /\ d.n < 3 THEN insert(<<>>, MissingBoards) ELSE <<>>
        e2 == IF d.have /\ "0" \in d.low
              THEN insert(e1, MinerError("Chain " \o "0" \o " - Low Hashrate", "HashBoard"))
              ELSE e1
    IN  first_matches(ANTMINER_ERRORS, since_last_start(log), e2)

Vnish_get_errors(log, d) ==
    all_matches(VNISH_ERRORS, since_last_start(log), <<>>)

\* the last 300 lines, the latest first; d.have: StatsResp::Running;
\* d.missing: which of board_2, board_3 are None
Minera_get_errors(log, d) ==
    LET n == Len(log)
        kept == [i \in 1..(IF n < 300 THEN n ELSE 300) |-> log[n + 1 - i]]
        e1 == IF d.have /\ 2 \in d.missing THEN insert(<<>>, MissingBoards) ELSE <<>>
        e2 == IF d.have /\ 3 \in d.missing THEN insert(e1, MissingBoards) ELSE e1
    IN  first_matches(MINERA_ERRORS, kept, e2)

\* d.have: boards.data is Some; d.n: boards.len()
Minerva_get_errors(log, d) ==
    first_matches(MINERVA_ERRORS, log,
                  IF d.have /\ d.n < 3 THEN insert(<<>>, MissingBoards) ELSE <<>>)

\* the lines are the keys of error_code
Whatsminer_get_errors(log, d) ==
    first_matches(WHATSMINER_ERRORS, log, <<>>)

\* the failures of get_logs and of the other requests of get_errors
GetErrorsErrs(b) ==
    CASE b = "Antminer"   -> {RequestError("http"), HttpRequestFailed}
                                 \cup FetchErrs("Antminer", "stats")
      [] b = "Vnish"      -> {RequestError("http"), ApiCallFailed("logs failed")}
      [] b = "Minera"     -> {RequestError("http"), HttpRequestFailed}
      [] b = "Minerva"    -> {RequestError("http"), HttpRequestFailed}
      [] b = "Whatsminer" -> SendRecvErrs \cup {ParseError}
      [] OTHER            -> {NotSupported}

ErrList(l)  == [tag |-> "Ok", err |-> NoRes, list |-> l]
ErrFail(e)  == [tag |-> "Err", err |-> e, list |-> <<>>]
ErrPending  == [tag |-> "None", err |-> NoRes, list |-> <<>>]

get_errors(b, log, d) ==
    CASE b = "Antminer"   -> ErrList(Antminer_get_errors(log, d))
      [] b = "Vnish"      -> ErrList(Vnish_get_errors(log, d))
      [] b = "Minera"     -> ErrList(Minera_get_errors(log, d))
      [] b = "Minerva"    -> ErrList(Minerva_get_errors(log, d))
      [] b = "Whatsminer" -> ErrList(Whatsminer_get_errors(log, d))
      [] OTHER            -> ErrFail(NotSupported)

\* the lines of a log in which rule j of backend b occurs
ErrLines(b, j) ==
    {[k |-> "noise", rule |-> 0, cap |-> ""]}
        \cup (IF b \in {"Antminer", "Vnish"}
              THEN {[k |-> "marker", rule |-> 0, cap |-> ""]} ELSE {})
        \cup (IF j = 0 THEN {}
              ELSE {[k |-> "hit", rule |-> j, cap |-> c] :
                       c \in IF RulesOf(b)[j].groups > 0 THEN {"0", "1"} ELSE {""}})

\* what the device reports about its boards
ErrDevs(b) ==
    LET D(h, n, m, l) == [have |-> h, n |-> n, missing |-> m, low |-> l]
    IN  CASE b = "Antminer" -> {D(FALSE, 0, {}, {})}
                                   \cup {D(TRUE, n, {}, l) : n \in {0, 2, 3}, l \in {{}, {"0"}}}
          [] b = "Minera"   -> {D(FALSE, 0, {}, {})}
                                   \cup {D(TRUE, 0, m, {}) : m \in SUBSET {2, 3}}
          [] b = "Minerva"  -> {D(FALSE, 0, {}, {})}
                                   \cup {D(TRUE, n, {}, {}) : n \in {0, 2, 3}}
          [] OTHER          -> {D(FALSE, 0, {}, {})}

ErrInit ==
    /\ e_b \in Backends
    /\ e_dev \in ErrDevs(e_b)
    /\ \E j \in 0..Len(RulesOf(e_b)) : \E n \in 0..MaxLines :
           e_log \in [1..n -> ErrLines(e_b, j)]
    /\ e_out = ErrPending

GetErrors ==
    /\ e_out = ErrPending
    /\ \/ e_out' = get_errors(e_b, e_log, e_dev)
       \/ \E e \in GetErrorsErrs(e_b) : e_out' = ErrFail(e)
    /\ UNCHANGED <<e_b, e_log, e_dev>>
    /\ UNCHANGED <<clientVars, mergeVars, cacheVars, tokVars, probeVars>>

ErrSpecInit == ClientIdle /\ MergeIdle /\ CacheIdle /\ TokIdle /\ ErrInit /\ ProbeIdle

ErrSpec == ErrSpecInit /\ [][GetErrors]_vars

(***************************************************************************)
(* Claims about get_errors.                                                *)
(***************************************************************************)
\* the lines at or after the last start marker (all lines without a marker)
Scoped == {i \in 1..Len(e_log) : \A k \in (i + 1)..Len(e_log) : e_log[k].k # "marker"}

HitLines == {i \in 1..Len(e_log) : e_log[i].k = "hit"}

\* the entry that the occurrence in line i renders
Entry(i) ==
    LET r == RulesOf(e_b)[e_log[i].rule]
    IN  [msg |-> get_msg(r, [g \in 1..r.groups |-> e_log[i].cap]),
         error_type |-> r.error_type]

Entries == {e_out.list[i] : i \in 1..Len(e_out.list)}

\* C15: the result of get_errors holds no two entries with the same message
\* and category, whatever the log and the device.
C15_NoDuplicateEntries ==
    e_out.tag = "Ok" =>
        \A i, k \in 1..Len(e_out.list) : i # k => e_out.list[i] # e_out.list[k]

\* a Vnish log holds the same matching line twice and the result one entry
C15_Witness ==
    /\ e_b = "Vnish" /\ e_out.tag = "Ok" /\ Len(e_out.list) = 1
    /\ \E i, k \in HitLines : i < k /\ e_log[i] = e_log[k]
    /\ \A i \in 1..Len(e_log) : e_log[i].k # "marker"

\* C16: on Antminer and Vnish every entry that comes from the log is rendered
\* from an occurrence at or after the last start marker, and the first
\* occurrence there is reported; without a marker that is the whole log.
C16_SinceLastStart ==
    (e_b \in {"Antminer", "Vnish"} /\ e_out.tag = "Ok") =>
        /\ \A x \in Entries :
              \/ x = MissingBoards
              \/ x = MinerError("Chain 0 - Low Hashrate", "HashBoard")
              \/ \E i \in Scoped \cap HitLines : Entry(i) = x
        /\ \A i \in Scoped \cap HitLines :
              (\A k \in Scoped \cap HitLines : i <= k) => Entry(i) \in Entries

\* an occurrence before the marker, one with another capture after it, and
\* only the latter is reported
C16_Witness ==
    /\ e_b = "Antminer" /\ e_out.tag = "Ok"
    /\ Len(e_log) = 3 /\ e_log[2].k = "marker" /\ {1, 3} \subseteq HitLines
    /\ Entry(1) \notin Entries /\ Entry(3) \in Entries

\* C17: on every backend, each occurrence in the scoped log of a rule whose
\* message carries a captured identifier has its entry in the result.
C17_EveryOccurrenceReported ==
    e_out.tag = "Ok" =>
        \A i \in HitLines :
            (i \in Scoped /\ RulesOf(e_b)[e_log[i].rule].groups > 0) => Entry(i) \in Entries

\* two chains match the same Antminer rule and only the first is reported
C17_SecondChainLost ==
    /\ e_b = "Antminer" /\ e_out.tag = "Ok"
    /\ e_log = <<[k |-> "hit", rule |-> 2, cap |-> "0"], [k |-> "hit", rule |-> 2, cap |-> "1"]>>
    /\ MinerError("Chain 0 load EEPROM fail", "HashBoard") \in Entries
    /\ MinerError("Chain 1 load EEPROM fail", "HashBoard") \notin Entries

\* C18: every rule of every table that get_errors has rendered has as many
\* capture groups in its pattern as placeholders in its message, so all its
\* placeholders are filled and no captured text is dropped.
C18_GroupsMatchPlaceholders ==
    e_out.tag = "Ok" =>
        \A l \in HitLines :
            LET r == RulesOf(e_b)[e_log[l].rule]
            IN  r.groups = Cardinality({i \in 1..Len(r.msg) : r.msg[i] = "{}"})

\* Whatsminer code 202x is reported with its placeholder unfilled
C18_PlaceholderLeft ==
    /\ e_b = "Whatsminer" /\ e_out.tag = "Ok"
    /\ MinerError("Pool {} connect failure", "Network") \in Entries

\* C19: when the device reports fewer than three hashboards, none at all
\* included, the result holds ("Missing Board(s)", HashBoard) exactly once,
\* next to the entries from the log.
C19_MissingBoardsOnce ==
    (/\ e_out.tag = "Ok"
     /\ \/ e_b = "Antminer" /\ e_dev.have /\ e_dev.n < 3
        \/ e_b = "Minera" /\ e_dev.have /\ e_dev.missing # {}
        \/ e_b = "Minerva" /\ (~e_dev.have \/ e_dev.n < 3)) =>
        /\ Cardinality({i \in 1..Len(e_out.list) : e_out.list[i] = MissingBoards}) = 1
        /\ \A i \in HitLines :
              (\A k \in HitLines : i <= k) /\ e_b # "Minera" /\ i \in Scoped
                  => Entry(i) \in Entries

\* the MinerVa device reports no hashboards and the result is empty
C19_NoBoardsNoEntry ==
    /\ e_b = "Minerva" /\ ~e_dev.have /\ e_out.tag = "Ok"
    /\ e_out.list = <<>>

(***************************************************************************)
(* Claims about reboot and the connection it cuts.                         *)
(***************************************************************************)
\* the last call was a reboot whose connection was refused or was dropped
\* once the command was written
RebootCutOff ==
    /\ lastOp.op = "reboot"
    /\ lastOp.arg \in {"refused", "dropped"}

\* C20: on every backend a reboot whose connection fails (is refused, or is
\* dropped right after the command is sent) returns success, not an error.
C20_CutOffRebootSucceeds == RebootCutOff => lastOp.res = Done

\* a Vnish or Minera reboot whose connection was dropped after the command
\* returned the error of the request
C20_CutOffRebootFails ==
    /\ backend \in {"Vnish", "Minera"}
    /\ lastOp.op = "reboot"
    /\ lastOp.arg = "dropped"
    /\ lastOp.res = RequestError("http")

(***************************************************************************)
(* One probe of get_miner run on its own against what a device answers.    *)
(***************************************************************************)
\* GET /index.php requests sent while the sections are scanned: one when the
\* scan comes to a Dev section whose type is "Minerva"
RECURSIVE index_requests(_, _)
index_requests(secs, o) ==
    IF secs = <<>> \/ Head(secs) \in {"AmVersion", "AvaStats"} THEN 0
    ELSE IF Head(secs) = "Dev" THEN (IF o.devType = "Minerva" THEN 1 ELSE 0)
    ELSE index_requests(Tail(secs), o)

ProbeInit ==
    /\ p_kind \in {"http", "socket"}
    /\ p_obs \in IF p_kind = "http" THEN HttpObs ELSE SocketObs
    /\ p_out = NoRes
    /\ p_gets = 0

HttpDetect ==
    /\ p_kind = "http"
    /\ p_out = NoRes
    /\ p_out' = http_detect(p_obs)
    /\ UNCHANGED <<p_kind, p_obs, p_gets>>
    /\ UNCHANGED <<clientVars, mergeVars, cacheVars, tokVars, errVars>>

SocketDetect ==
    /\ p_kind = "socket"
    /\ p_out = NoRes
    /\ p_out' = socket_detect(p_obs)
    /\ p_gets' = IF p_obs.conn = "ok" /\ p_obs.shape = "stats" /\ p_obs.succ /\ p_obs.hasStats
                 THEN index_requests(p_obs.secs, p_obs)
                 ELSE 0
    /\ UNCHANGED <<p_kind, p_obs>>
    /\ UNCHANGED <<clientVars, mergeVars, cacheVars, tokVars, errVars>>

ProbeNext == HttpDetect \/ SocketDetect

ProbeSpecInit == ClientIdle /\ MergeIdle /\ CacheIdle /\ TokIdle /\ ErrIdle /\ ProbeInit

ProbeSpec == ProbeSpecInit /\ [][ProbeNext]_vars

(***************************************************************************)
(* Claims about timeouts.                                                  *)
(***************************************************************************)
\* the HTTP probe came as far as GET /cgi-bin/luci: no earlier check matched
\* and no earlier body failed to be read
LuciSent ==
    /\ p_kind = "http"
    /\ p_obs.root = "resp"
    /\ ~(p_obs.unauth /\ p_obs.auth \in {"digest", "nonascii"})
    /\ p_obs.vnish \in {"fail", "nomatch"}
    /\ p_obs.avalon \in {"fail", "nomatch"}
    /\ p_obs.body = "other"
    /\ p_obs.https \in {"fail", "nomatch"}

\* a request of the probe got no answer within the request timeout, and the
\* probe has returned
ProbeTimedOut ==
    /\ p_out # NoRes
    /\ \/ LuciSent /\ p_obs.luci = "timeout"
       \/ p_kind = "http" /\ p_obs.root = "timeout"
       \/ p_kind = "socket" /\ p_obs.conn = "timeout"
       \/ p_kind = "socket" /\ p_obs.index = "timeout" /\ p_gets = 1

\* C21: a network operation that exceeds its timeout (the connect, the socket
\* exchange, every HTTP request of a probe) fails with Timeout, never with a
\* generic request or I/O error.
C21_TimeoutIsTimeout == ProbeTimedOut => p_out = Timeout

\* the probe's GET /cgi-bin/luci or GET /index.php timed out and the probe
\* returned the request error
C21_TimeoutAsRequestError ==
    /\ p_out = RequestError("http")
    /\ \/ LuciSent /\ p_obs.luci = "timeout"
       \/ p_kind = "socket" /\ p_obs.index = "timeout" /\ p_gets = 1

(***************************************************************************)
(* Claims about the outcomes of the public operations.                     *)
(***************************************************************************)
\* backend b does not offer op(arg): it has no such operation, or no profile
\* of that kind
Lacks(b, op, arg) ==
    \/ op \in {"get_profile", "set_profile"} /\ b \notin {"Avalon", "Vnish"}
    \/ op \in {"get_sleep", "set_sleep", "get_blink", "set_blink"} /\ b = "Minera"
    \/ op = "set_profile" /\ b = "Avalon" /\ arg \in {"Preset", "Manual"}
    \/ op = "set_profile" /\ b = "Vnish" /\ arg = "LowPower"

\* what set_profile reads before it looks at the profile is cached already,
\* so that the call makes no request that could fail
ProfileInputsCached ==
    /\ backend = "Avalon" => slot["model"].tag = "Some"
    /\ backend = "Vnish" => slot["presets"].tag = "Some"

\* C22: a call for a capability the backend lacks returns NotSupported, not a
\* generic failure; this includes set_profile with a profile kind the backend
\* does not offer (LowPower on Vnish, Preset or Manual on Avalon).
C22_LackingIsNotSupported ==
    [][(/\ lastOp' # lastOp
        /\ Lacks(backend, lastOp'.op, lastOp'.arg)
        /\ ProfileInputsCached)
       => lastOp'.res = NotSupported]_vars

\* set_profile(LowPower) on a Vnish handle whose presets are cached returned
\* ApiCallFailed("Invalid profile")
C22_LowPowerInvalidProfile ==
    /\ backend = "Vnish"
    /\ slot["presets"].tag = "Some"
    /\ lastOp = [op |-> "set_profile", arg |-> "LowPower",
                 res |-> ApiCallFailed("Invalid profile")]

\* C23: set_pools returns a typed result or a typed failure for every pool
\* list on every backend, lists of fewer than three pools included; it never
\* panics.
C23_SetPoolsNeverPanics == lastOp.op = "set_pools" => lastOp.res.tag # "Panic"

\* set_pools with fewer than three pools on a Whatsminer or Minerva handle
\* indexed past the end of the list
C23_ShortListPanics ==
    /\ backend \in {"Whatsminer", "Minerva"}
    /\ lastOp = [op |-> "set_pools", arg |-> "short", res |-> Panic]

\* the outcomes of op(arg) called on the backend itself; arg is the argument
\* as lastOp records it
InnerOutcomes(op, arg) ==
    CASE op = "reboot"      -> reboot(backend, slot, dev, arg)
      [] op = "get_pools"   -> get_pools(backend, slot, dev)
      [] op = "set_pools"   -> set_pools(backend, slot, dev, arg)
      [] op = "get_sleep"   -> get_sleep(backend, slot, dev)
      [] op = "set_sleep"   -> set_sleep(backend, slot, dev, arg = "true")
      [] op = "get_blink"   -> get_blink(backend, slot, dev)
      [] op = "set_blink"   -> set_blink(backend, slot, dev, arg = "true")
      [] op = "get_profile" -> get_profile(backend, slot, dev)
      [] op = "get_model"   -> get_model(backend, slot, dev)
      [] OTHER              -> set_profile(backend, slot, dev, arg)

\* C24: an operation called on the guard returns what the same operation on
\* the wrapped handle returns and has the same effect on the wrapped handle;
\* the guard changes nothing else and leaves the permit alone.
C24_GuardDelegates ==
    [][(Guarded /\ lastOp' # lastOp /\ lastOp'.res # NoRes)
       => /\ \E o \in InnerOutcomes(lastOp'.op, lastOp'.arg) :
                /\ slot' = o.slot
                /\ dev' = o.dev
                /\ lastOp'.res = o.res
                /\ lock' = IF o.blocked = "" THEN lock
                           ELSE [lock EXCEPT ![o.blocked] = <<0, 0>>]
          /\ UNCHANGED <<max_connections, permits, waiters, pc, loc, held, ret>>]_vars

\* set_blink(true) through the guard lit the indicator of the device and the
\* guard still owns the only permit
C24_Witness ==
    /\ Guarded
    /\ permits = 0
    /\ lastOp = [op |-> "set_blink", arg |-> "true", res |-> Ok("", "")]
    /\ dev.blink

(***************************************************************************)
(* Claims about concurrent reads of one handle.                            *)
(***************************************************************************)
\* C25: slot accesses are serialized per slot only: a reader that is first in
\* the queue of its slot takes the lock, and a reader that is fetching goes
\* on, whatever the readers of the other slots are doing; a read of slot B
\* is not held up by a fetch of slot A that is in flight.
C25_SerializedPerSlot ==
    \A r \in Readers :
        /\ (rd[r].pc = "wait" /\ lock[rd[r].s] # <<>> /\ Head(lock[rd[r].s]) = r)
               => ENABLED Locked(r)
        /\ rd[r].pc = "fetch" => ENABLED FetchOk(r)

\* reader 2 was handed slot B, which it filled itself, while the fetch of
\* reader 1 for another slot is still in flight
C25_Witness ==
    /\ rd[1].pc = "fetch"
    /\ rd[2].pc = "hold"
    /\ rd[2].s # rd[1].s
    /\ rd[1].o = ""
    /\ fetches[rd[2].s] = 1
    /\ rets[rd[2].s] = <<[ok |-> TRUE, v |-> slot[rd[2].s], e |-> NoRes]>>
    /\ slot[rd[1].s].tag = "None"

(***************************************************************************)
(* Claims about the socket probe.                                          *)
(***************************************************************************)
\* the socket probe has returned, and the answer to "stats" was a bare Status
BareStatus ==
    /\ p_kind = "socket"
    /\ p_out # NoRes
    /\ p_obs.conn = "ok"
    /\ p_obs.shape = "status"

FoundMinerva ==
    /\ p_kind = "socket"
    /\ p_out # NoRes
    /\ p_obs.conn = "ok" /\ p_obs.shape = "stats" /\ p_obs.succ /\ p_obs.hasStats
    /\ LET typed == SelectSeq(p_obs.secs,
                              LAMBDA k : k \in {"AmVersion", "AvaStats", "Dev"})
       IN  typed # <<>> /\ Head(typed) = "Dev"
    /\ p_obs.devType = "Minerva"

\* C27: on a stats section of type "Minerva" the socket probe sends exactly
\* one GET /index.php and selects by its status: 404 is the custom-interface
\* Minerva, 200 is Minera, any other status fails with UnknownMinerType.
C27_MinervaByIndexStatus ==
    FoundMinerva =>
        /\ p_gets = 1
        /\ p_obs.index = "404" => p_out = Ok("Minerva", "")
        /\ p_obs.index = "200" => p_out = Ok("Minera", "")
        /\ p_obs.index = "other" => p_out.tag = "Err" /\ p_out.k = "UnknownMinerType"

\* a Dev section of type "Minerva" behind a Pool section, /index.php answered
\* 200: Minera
C27_Witness ==
    /\ FoundMinerva
    /\ p_obs.secs = <<"Pool", "Dev">>
    /\ p_obs.index = "200"
    /\ p_gets = 1
    /\ p_out = Ok("Minera", "")

(***************************************************************************)
(* Claims about the slots around the mutating operations.                  *)
(***************************************************************************)
\* C28: an operation that holds the guard of a slot releases it before it
\* locks the same slot again, so that every operation returns once its
\* requests are answered; Antminer set_pools returns Ok after its POST.
C28_EveryOperationReturns == lastOp.res.tag # "Pending"

\* Antminer set_pools has posted the new pools and waits in invalidate() for
\* the lock of miner_conf, whose guard it holds itself: summary is reset,
\* miner_conf is not
C28_SetPoolsWaitsForItself ==
    /\ backend = "Antminer"
    /\ lastOp.op = "set_pools"
    /\ lastOp.res.tag = "Pending"
    /\ lock["miner_conf"] = <<0, 0>>
    /\ slot["summary"].tag = "None"
    /\ slot["miner_conf"].tag = "Some"

\* the last call on the Vnish handle was set_blink(b), it returned Ok, and
\* the indicator of the device is as it asked
BlinkWasSet(b) ==
    /\ backend = "Vnish"
    /\ lastOp = [op |-> "set_blink", arg |-> (IF b THEN "true" ELSE "false"),
                 res |-> Ok("", "")]
    /\ dev.blink = b

\* C29: on a Vnish handle, after set_blink(b) has returned success the next
\* get_blink returns b, and a following set_blink of the opposite value is
\* sent to the device, not skipped on account of a stale cached status.
C29_BlinkReadsBackAndToggles ==
    [][\A b \in BOOLEAN :
          (BlinkWasSet(b) /\ lastOp' # lastOp /\ lastOp'.res.tag = "Ok")
          => /\ lastOp'.op = "get_blink"
                   => lastOp'.res.k = (IF b THEN "true" ELSE "false")
             /\ (lastOp'.op = "set_blink" /\ lastOp'.arg # lastOp.arg)
                   => dev'.blink = ~b]_vars

\* set_blink(false) returned Ok on a Vnish handle without a request: the
\* cached status still says off, while the indicator of the device is on
C29_ToggleSkipped ==
    /\ backend = "Vnish"
    /\ lastOp = [op |-> "set_blink", arg |-> "false", res |-> Ok("", "")]
    /\ slot["status"].tag = "Some"
    /\ ~slot["status"].blink
    /\ dev.blink

\* the slots that hold identity data of the device (model, MAC, DNS, system
\* info) and nothing that set_pools or set_sleep changes
IdentitySlots(b) ==
    CASE b = "Antminer"   -> {"sys_info"}
      [] b = "Avalon"     -> {"model", "version"}
      [] b = "Vnish"      -> {"info"}
      [] b = "Whatsminer" -> {"model"}
      [] OTHER            -> {}

\* C30: set_pools and set_sleep reset only slots whose value they may
\* change: on every backend a slot that holds identity data of the device is
\* after the call as it was before.
C30_IdentitySlotsKept ==
    [][(lastOp' # lastOp /\ lastOp'.op \in {"set_pools", "set_sleep"})
       => \A s \in IdentitySlots(backend) :
              slot[s].tag = "Some" => slot'[s] = slot[s]]_vars

\* set_pools returned Ok on a Vnish handle and the info slot is Empty, while
\* the presets read before the call are still cached
C30_InfoReset ==
    /\ backend = "Vnish"
    /\ lastOp.op = "set_pools"
    /\ lastOp.res = Ok("", "")
    /\ slot["info"].tag = "None"
    /\ slot["presets"].tag = "Some"

(***************************************************************************)
(* Claims about the permit of an identify call that does not return a      *)
(* handle.                                                                 *)
(***************************************************************************)
\* the calls past the acquire and the live handles
Probing == {t \in Tasks : pc[t] \in {"http", "socket", "handle"}}

\* C31: an identify call that fails (both probes fail) or is cancelled while
\* waiting or probing gives its permit back: in the state after it ends the
\* free permits are the budget less the calls and handles still alive, and the
\* ended call neither holds a permit nor queues for one.
C31_EndedIdentifyReturnsPermit ==
    [][\A t \in Tasks :
          (pc[t] \in {"acquire", "http", "socket"} /\ pc'[t] = "idle" /\ Budgeted)
              => /\ ~held'[t]
                 /\ \A i \in 1..Len(waiters') : waiters'[i] # t
                 /\ permits' = max_connections
                                  - Cardinality({u \in Tasks :
                                        pc'[u] \in {"http", "socket", "handle"}})
                 /\ permits' = permits + (IF held[t] THEN 1 ELSE 0)]_vars

\* both probes failed under a budget and every permit is free again
C31_Witness ==
    /\ Budgeted
    /\ ret.what = "get_miner" /\ ret.result.tag = "Err"
    /\ Probing = {}
    /\ permits = max_connections

(***************************************************************************)
(* Claims about a fill that fails.                                         *)
(***************************************************************************)
\* r is in none of the lock queues lk
Unqueued(r, lk) == \A s \in DOMAIN lk : \A i \in 1..Len(lk[s]) : lk[s][i] # r

\* C32: when the fill of an Empty slot fails, the slot stays Empty (the failure
\* is stored nowhere), the failure is handed to the reader that made the fill,
\* that reader holds and awaits no slot lock afterwards, and a read that is
\* granted the lock of an Empty slot starts a new fetch.
C32_FailedFetchLeavesEmpty ==
    [][/\ \A s \in Slots(backend) :
             (/\ Len(rets'[s]) = Len(rets[s]) + 1
              /\ ~rets'[s][Len(rets'[s])].ok)
                => /\ slot[s].tag = "None" /\ slot'[s].tag = "None"
                   /\ rets'[s][Len(rets'[s])].e.tag \in {"Err", "Panic"}
                   /\ fetches'[s] = fetches[s]
                   /\ \E r \in Readers :
                         /\ rd[r].pc \in {"fetch", "wait"}
                         /\ s \in {rd[r].s, rd[r].o}
                         /\ rd'[r].pc = "idle"
                         /\ Unqueued(r, lock')
       /\ \A r \in Readers :
             (rd[r].pc = "wait" /\ rd'[r] # rd[r] /\ slot[rd[r].s].tag = "None")
                => fetches'[rd[r].s] = fetches[rd[r].s] + 1]_vars

\* a fetch failed, the next read fetched again and got the value
C32_Witness ==
    \E s \in Slots(backend) :
        /\ Len(rets[s]) = 2
        /\ ~rets[s][1].ok
        /\ rets[s][2] = Got(slot[s])
        /\ slot[s].tag = "Some"
        /\ fetches[s] = 2
        /\ lock[s] = <<>>

(***************************************************************************)
(* Claims about the order in which the slot locks are taken.               *)
(***************************************************************************)
\* r can go on: it is not inside an accessor, or answers a request, or holds
\* a guard it can drop, or is the first in the queue of the lock it awaits
Runnable(r) ==
    \/ rd[r].pc \in {"idle", "fetch", "hold"}
    \/ /\ rd[r].pc = "wait"
       /\ lock[rd[r].s] # <<>>
       /\ lock[rd[r].s][1] = r

\* the readers that hold one guard and await the lock of another slot
Nested == {r \in Readers : rd[r].pc = "wait" /\ rd[r].o # ""}

\* C33: concurrent read operations on one handle never deadlock: whenever a
\* reader is inside an operation some reader can go on, and the pairs (guard
\* held, lock awaited) are model-version for Avalon and presets-settings and
\* summary-info for Vnish, never one of them reversed.
C33_ReadsNeverDeadlock ==
    /\ (\E r \in Readers : rd[r].pc # "idle") => \E r \in Readers : rd[r].pc # "idle" /\ Runnable(r)
    /\ \A r \in Nested :
          <<backend, rd[r].o, rd[r].s>> \in {<<"Avalon", "model", "version">>,
                                            <<"Vnish", "presets", "settings">>,
                                            <<"Vnish", "summary", "info">>}

\* one reader holds the summary guard and awaits the info lock, which the
\* other reader holds
C33_Witness ==
    \E r1, r2 \in Readers :
        /\ backend = "Vnish"
        /\ rd[r1] = [pc |-> "wait", s |-> "info", o |-> "summary"]
        /\ rd[r2].s = "info" /\ rd[r2].pc \in {"fetch", "hold"}

(***************************************************************************)
(* Claims about handles that authenticate at the same time.                *)
(***************************************************************************)
\* two handles attached to the store, built for the same host
SameHost(h1, h2) ==
    /\ h1 # h2
    /\ hand[h1].cache /\ hand[h2].cache
    /\ hand[h1].st # "none" /\ hand[h2].st # "none"
    /\ <<hand[h1].ip, hand[h1].port>> = <<hand[h2].ip, hand[h2].port>>

\* C34: handles of one host that authenticate at the same time with caching
\* enabled and no stored token perform one get_token handshake between them:
\* the get_token requests of two such handles are never in flight together.
C34_OneHandshakePerHost ==
    \A h1, h2 \in Handles :
        SameHost(h1, h2) => ~(hand[h1].st = "auth" /\ hand[h2].st = "auth")

\* both handles of host a:4028 found the store empty and each has sent its own
\* get_token
C34_TwoHandshakes ==
    \E h1, h2 \in Handles :
        /\ SameHost(h1, h2)
        /\ hand[h1].st = "auth" /\ hand[h2].st = "auth"
        /\ hand[h1].token = NoTok /\ hand[h2].token = NoTok
        /\ store[hand[h1].ip] = NoTok

(***************************************************************************)
(* Claims about the rule loop of Vnish get_errors.                         *)
(***************************************************************************)
\* C35: Vnish get_errors ends on every log, and its result holds exactly the
\* rendered messages of all the occurrences of the rules in the text from the
\* last start marker on: the search for a rule resumes after the end of the
\* occurrence it has just reported, so a later occurrence is not skipped and
\* none is reported from before the marker.
C35_AllSuccessiveMatches ==
    (e_b = "Vnish" /\ e_out # ErrPending /\ e_out.tag = "Ok") =>
        Entries = {Entry(i) : i \in Scoped \cap HitLines}

\* three occurrences of one rule, the second and the third after the marker
\* with different captures: both are reported
C35_Witness ==
    /\ e_b = "Vnish" /\ e_out.tag = "Ok"
    /\ Len(e_log) = 3 /\ HitLines = {2, 3} /\ e_log[1].k = "marker"
    /\ e_log[2].cap # e_log[3].cap
    /\ Cardinality(Entries) = 2
    /\ Len(e_out.list) = 2

(***************************************************************************)
(* Claims about the codes that Whatsminer get_errors matches.              *)
(***************************************************************************)
\* C36: Whatsminer get_errors reports the error of a rule only if the device
\* returned a code that the rule's pattern denotes as a whole code: every
\* entry of the result is the entry of a returned code's own rule.
C36_WholeCodesOnly ==
    (e_b = "Whatsminer" /\ e_out.tag = "Ok") =>
        \A x \in Entries : \E i \in HitLines : Entry(i) = x

\* the device returned the one code 2010 and the error of code 201 is
\* reported with it
C36_Code201Reported ==
    /\ e_b = "Whatsminer" /\ e_out.tag = "Ok"
    /\ e_log = <<[k |-> "hit", rule |-> 60, cap |-> ""]>>
    /\ Entries = {MinerError("All pools disabled", "Config"),
                  MinerError("Power configuration mismatch", "Power")}

(***************************************************************************)
(* The parse of the sections of a stats response: enum Stats is untagged,  *)
(* so serde tries its variants in the order of their declaration and takes *)
(* the first whose struct the section deserializes into.  A struct needs   *)
(* all its fields that are not Option and ignores every other key.  A      *)
(* section is the set of the groups of keys it carries:                    *)
(*   "shared"   STATS, ID, Elapsed, Calls, Wait, Max, Min (StatsShared)    *)
(*   "Type"     Type                                                       *)
(*   "pool"     Pool Calls ... Net Bytes Recv                              *)
(*   "chain"    Chain ID ... Fan0 Speed                                    *)
(*   "MM ID0"   MM ID0                                                     *)
(*   "version"  BMMiner, Miner, CompileTime                                *)
(*   "GHS"      GHS 5s ... miner_id                                        *)
(***************************************************************************)
StatsFields == {"shared", "Type", "pool", "chain", "MM ID0", "version", "GHS"}

\* the keys that the struct of a variant needs
Requires(v) ==
    CASE v = "Pool"      -> {"shared", "Type", "pool"}
      [] v = "MvStats"   -> {"shared", "Type", "chain"}
      [] v = "AvaStats"  -> {"shared", "MM ID0"}
      [] v = "Dev"       -> {"shared"}
      [] v = "AmVersion" -> {"version", "Type"}
      [] OTHER           -> {"shared", "GHS"}

\* the variants in the order of their declaration; a faulty order with Dev
\* ahead of the vendor sections
Variants_dev_first == <<"Pool", "Dev", "MvStats", "AvaStats", "AmVersion", "AmStats">>
Variants == <<"Pool", "MvStats", "AvaStats", "Dev", "AmVersion", "AmStats">>

\* Stats::deserialize on one section: "none" when no variant takes it
classify(sec) ==
    LET fit == {i \in 1..Len(Variants) : Requires(Variants[i]) \subseteq sec}
    IN  IF fit = {} THEN "none"
        ELSE Variants[CHOOSE i \in fit : \A k \in fit : i <= k]

\* serde_json::from_str::<StatsResp> on the sections of a response
from_str(secs) ==
    LET kinds == [i \in 1..Len(secs) |-> classify(secs[i])]
    IN  IF \E i \in 1..Len(secs) : kinds[i] = "none"
        THEN [tag |-> "Err", k |-> "ParseError", s |-> "", stats |-> <<>>]
        ELSE [tag |-> "Ok", k |-> "", s |-> "", stats |-> kinds]

\* the response of the MinerVa of tests::test_mvstats: two chains, three pools
MinervaResponse ==
    <<{"shared", "Type", "chain"}, {"shared", "Type", "chain"},
      {"shared", "Type", "pool"}, {"shared", "Type", "pool"}, {"shared", "Type", "pool"}>>

StatsInit ==
    /\ p_kind = "stats"
    /\ p_obs \in UNION {[1..n -> SUBSET StatsFields] : n \in 0..MaxSections}
                    \cup {MinervaResponse}
    /\ p_out = NoRes
    /\ p_gets = 0

ParseStats ==
    /\ p_kind = "stats"
    /\ p_out = NoRes
    /\ p_out' = from_str(p_obs)
    /\ UNCHANGED <<p_kind, p_obs, p_gets>>
    /\ UNCHANGED <<clientVars, mergeVars, cacheVars, tokVars, errVars>>

StatsSpecInit == ClientIdle /\ MergeIdle /\ CacheIdle /\ TokIdle /\ ErrIdle /\ StatsInit

StatsSpec == StatsSpecInit /\ [][ParseStats]_vars

(***************************************************************************)
(* Claims about the classification of the stats sections.                  *)
(***************************************************************************)
\* the position of a variant in Pool, MvStats, AvaStats, Dev, AmVersion, AmStats
Rank(v) ==
    CASE v = "Pool" -> 1 [] v = "MvStats" -> 2 [] v = "AvaStats" -> 3
      [] v = "Dev" -> 4 [] v = "AmVersion" -> 5 [] OTHER -> 6

\* C37: every section of a parsed stats response is classified by the first
\* variant, in the order Pool, MvStats, AvaStats, Dev, AmVersion, AmStats,
\* whose keys it carries: a section with the MinerVa chain keys (and not the
\* pool keys) is MvStats and not Dev, a section with the pool keys is Pool,
\* and the MinerVa response of five sections parses into five sections whose
\* first is MvStats.
C37_FirstMatchingVariant ==
    (p_kind = "stats" /\ p_out # NoRes /\ p_out.tag = "Ok") =>
        /\ Len(p_out.stats) = Len(p_obs)
        /\ \A i \in 1..Len(p_obs) :
              /\ p_out.stats[i] \in SectionKinds
              /\ Requires(p_out.stats[i]) \subseteq p_obs[i]
              /\ \A v \in SectionKinds :
                    Rank(v) < Rank(p_out.stats[i]) => ~(Requires(v) \subseteq p_obs[i])
              /\ {"shared", "Type", "pool"} \subseteq p_obs[i] => p_out.stats[i] = "Pool"
              /\ ({"shared", "Type", "chain"} \subseteq p_obs[i] /\ "pool" \notin p_obs[i])
                    => p_out.stats[i] = "MvStats"
        /\ p_obs = MinervaResponse =>
              p_out.stats = <<"MvStats", "MvStats", "Pool", "Pool", "Pool">>

\* the MinerVa response has been parsed: five sections, the first MvStats
C37_Witness ==
    /\ p_kind = "stats" /\ p_obs = MinervaResponse
    /\ p_out.tag = "Ok"
    /\ Len(p_out.stats) = 5 /\ p_out.stats[1] = "MvStats"

(***************************************************************************)
(* Claims about the socket probe on the responses of a MinerVa.            *)
(***************************************************************************)
\* Minera::get_cg_stats takes the response o: it parses as a StatsResp, stats
\* is Some and its first section is MvStats
cg_stats_accepts(o) ==
    /\ o.conn = "ok" /\ o.shape = "stats"
    /\ o.hasStats
    /\ o.secs # <<>>
    /\ o.secs[1] = "MvStats"

\* C38: a socket stats response with a success status that the Minera backend
\* accepts makes the socket probe return a MinerVa backend (Minerva or
\* Minera), never an unknown miner type.
C38_AcceptedIsRecognised ==
    (p_kind = "socket" /\ p_out # NoRes /\ p_obs.succ /\ cg_stats_accepts(p_obs)) =>
        (p_out.tag = "Ok" /\ p_out.k \in {"Minerva", "Minera"})

\* the sections are a MinerVa chain and a pool, as a MinerVa sends them, and
\* the probe ends with an unknown miner type
C38_ChainsUnrecognised ==
    /\ p_kind = "socket"
    /\ p_obs.succ /\ cg_stats_accepts(p_obs)
    /\ p_obs.secs = <<"MvStats", "Pool">>
    /\ p_out = UnknownMinerType("Stats did not include a section containing type")
    /\ p_gets = 0

(***************************************************************************)
(* Claims about Vnish set_sleep on a device that is in the requested state.*)
(***************************************************************************)
\* the last call on the Vnish handle was set_sleep(b), it returned Ok, and the
\* device is in the state it asked for
SleepWasSet(b) ==
    /\ backend = "Vnish"
    /\ lastOp = [op |-> "set_sleep", arg |-> (IF b THEN "true" ELSE "false"),
                 res |-> Ok("", "")]
    /\ dev.sleep = b

\* C39: on a Vnish handle whose device is already in the requested sleep
\* state, set_sleep sends no start or stop request and returns success: with
\* the summary in its slot (nothing has to be fetched), a set_sleep(b) that
\* follows a successful set_sleep(b) returns Ok, not the failure of a request.
C39_NoRequestWhenInState ==
    [][\A b \in BOOLEAN :
          (/\ SleepWasSet(b)
           /\ slot["summary"].tag = "Some"
           /\ lastOp'.op = "set_sleep" /\ lastOp'.arg = lastOp.arg)
          => lastOp'.res = Ok("", "")]_vars

\* the device is asleep, the summary cached before it was stopped says
\* mining, and set_sleep(true) has sent mining/stop again and failed
C39_StopSentAgain ==
    /\ backend = "Vnish"
    /\ lastOp = [op |-> "set_sleep", arg |-> "true",
                 res |-> ApiCallFailed("mining/stop failed")]
    /\ dev.sleep
    /\ slot["summary"].tag = "Some" /\ ~slot["summary"].sleep

(***************************************************************************)
(* The port of the raw-socket commands.  get_miner(ip, port) hands its     *)
(* port to the backend it builds (Backend::new(client, ip, port)), and the *)
(* operations pass a port to Client::send_recv / Client::send or to        *)
(* TcpStream::connect.                                                     *)
(***************************************************************************)
\* the ports tried; 0 stands for None (the port is omitted)
PortsTried == {0, 4028, 4029}

\* let port = port.unwrap_or(4028);
unwrap_or_4028(port) == IF port = 0 THEN 4028 ELSE port

\* the operations of a backend that write a command to the socket
SocketOps(b) ==
    CASE b = "Avalon"     -> {"get_model", "reboot", "get_power", "get_pools", "set_pools",
                              "get_sleep", "set_sleep", "get_blink", "set_blink",
                              "set_profile"}
      [] b = "Whatsminer" -> {"auth", "reboot", "get_hashrate", "get_pools", "set_pools",
                              "get_sleep", "set_sleep", "get_blink", "set_blink",
                              "get_logs", "get_errors"}
      [] b = "Minera"     -> {"get_power", "get_fan_speed", "get_fan_pwm"}
      [] OTHER            -> {}

\* the port argument of the command that op sends on a handle built with port
command_port(b, op, port) ==
    IF b = "Avalon" /\ op = "set_pools" THEN 4028 ELSE port

PortInit ==
    /\ p_kind = "port"
    /\ p_obs \in UNION {[b : {b}, op : SocketOps(b), port : PortsTried] : b \in Backends}
    /\ p_out = NoRes
    /\ p_gets = 0

\* get_miner builds the handle and the operation sends its command
SendCommand ==
    /\ p_kind = "port"
    /\ p_out = NoRes
    /\ p_out' = [tag |-> "Ok", k |-> "", s |-> "",
                 port |-> command_port(p_obs.b, p_obs.op, unwrap_or_4028(p_obs.port))]
    /\ UNCHANGED <<p_kind, p_obs, p_gets>>
    /\ UNCHANGED <<clientVars, mergeVars, cacheVars, tokVars, errVars>>

PortSpecInit == ClientIdle /\ MergeIdle /\ CacheIdle /\ TokIdle /\ ErrIdle /\ PortInit

PortSpec == PortSpecInit /\ [][SendCommand]_vars

\* C40: every raw-socket command of a handle is sent to the port that was
\* passed to get_miner, 4028 when the port was omitted, for every operation
\* of every backend that uses the socket.
C40_CommandsToIdentifiedPort ==
    (p_kind = "port" /\ p_out # NoRes) =>
        p_out.port = (IF p_obs.port = 0 THEN 4028 ELSE p_obs.port)

\* an Avalon identified on port 4029 has sent its setpool command to 4028
C40_SetPoolsToDefaultPort ==
    /\ p_kind = "port"
    /\ p_obs = [b |-> "Avalon", op |-> "set_pools", port |-> 4029]
    /\ p_out # NoRes
    /\ p_out.port = 4028

====
